---- MODULE Spec2Model ----
(***************************************************************************)
(* Streaming TLS/SSE request engine of src/PortDrivers/openai_io.c, and    *)
(* the ping/pong keep-alive of the WebSocket bridge of src/ws.cpp.         *)
(*                                                                         *)
(* Two contexts share three bounded queues.  The command context (Core 0)  *)
(* runs openai_output / openai_input on port accesses; the network         *)
(* context (Core 1) runs openai_poll; lwIP invokes the DNS and TCP         *)
(* callbacks between polls.  Every handler is one atomic action.           *)
(*                                                                         *)
(* Bytes are one-character strings.  Received bytes never include NUL      *)
(* (the response is text); the TLS record layer is abstracted to a         *)
(* transform that preserves the byte stream, so recv_buf holds the bytes   *)
(* that mbedtls_ssl_read will return, with the peer's close_notify alert   *)
(* as the element CLOSE_NOTIFY.                                            *)
(***************************************************************************)
EXTENDS Integers, Sequences, FiniteSets, TLC

VARIABLES
    tls_ctx,          \* openai_tls_t tls_ctx            (Core 1)
    port_state,       \* openai_port_state_t port_state  (Core 0)
    outbound_queue,   \* Core 0 -> Core 1: request start (openai_request_t)
    body_chunk_queue, \* Core 0 -> Core 1: body chunks
    inbound_queue,    \* Core 1 -> Core 0: response data and status
    net,              \* environment: resolver, transport, peer
    hist,             \* history (ghost) variables read only by the properties
    ws                \* keep-alive state of the WebSocket bridge (src/ws.cpp)

vars == <<tls_ctx, port_state, outbound_queue, body_chunk_queue, inbound_queue, net, hist, ws>>

----------------------------------------------------------------------------
(* Program constants *)

OAI_EOF == 0
OAI_WAITING == 1
OAI_DATA_READY == 2
OAI_FAILED == 3
OAI_BUSY == 4

\* Buffer sizes.  REQUEST_CHUNK_SIZE (256), HTTP_BUF_SIZE (2048) and
\* TLS_RECV_BUF_SIZE (6144) are scaled down so that full buffers are reached.
REQUEST_CHUNK_SIZE == 3
RESPONSE_CHUNK_SIZE == 512
TLS_RECV_BUF_SIZE == 96
HTTP_BUF_SIZE == 32

OUTBOUND_QUEUE_SIZE == 2
BODY_CHUNK_QUEUE_SIZE == 2
INBOUND_QUEUE_SIZE == 8

\* Timeouts in clock ticks (90000 ms and 10000 ms in the source).
OPENAI_TIMEOUT_MS == 3
DNS_TIMEOUT_MS == 1

\* Largest content length OAI_SET_LEN_HI accepts.
MAX_CONTENT_LENGTH == 32768

\* Length of the request head built by snprintf in SENDING_HEADERS (scaled).
HEADER_LEN == 2

----------------------------------------------------------------------------
(* Sequences of bytes *)

CR == "\r"
LF == "\n"
SP == " "
CLOSE_NOTIFY == "<close_notify>"

Min(a, b) == IF a < b THEN a ELSE b

Take(s, n) == SubSeq(s, 1, Min(n, Len(s)))
Drop(s, n) == SubSeq(s, n + 1, Len(s))

IsPrefix(s, t) == Len(s) <= Len(t) /\ SubSeq(t, 1, Len(s)) = s

\* strstr: offset of the first occurrence of pat in s, -1 if there is none
strstr(s, pat) ==
    LET hits == {i \in 0..(Len(s) - Len(pat)) : SubSeq(s, i + 1, i + Len(pat)) = pat}
    IN IF hits = {} THEN -1 ELSE CHOOSE i \in hits : \A j \in hits : i <= j

\* strncmp(s, pat, Len(pat)) == 0
StartsWith(s, pat) == Len(s) >= Len(pat) /\ SubSeq(s, 1, Len(pat)) = pat

RECURSIVE SkipSpaces(_)
SkipSpaces(s) == IF s # <<>> /\ Head(s) = SP THEN SkipSpaces(Tail(s)) ELSE s

RECURSIVE TrimCRLF(_)
TrimCRLF(s) ==
    IF s # <<>> /\ s[Len(s)] \in {CR, LF} THEN TrimCRLF(SubSeq(s, 1, Len(s) - 1)) ELSE s

STR_DATA == <<"d", "a", "t", "a", ":">>
STR_DONE == <<"[", "D", "O", "N", "E", "]">>
STR_LFLF == <<LF, LF>>
STR_CRLFCRLF == <<CR, LF, CR, LF>>

----------------------------------------------------------------------------
(* Queues (pico/util/queue.h) and messages *)

Response(data, status) == [data |-> data, len |-> Len(data), status |-> status]

queue_is_full(q, size) == Len(q) >= size

\* queue_try_add: the queue after the attempt (unchanged when it was full)
queue_try_add(q, size, msg) == IF Len(q) < size THEN Append(q, msg) ELSE q

queue_add_nonblocking(q, msg) == queue_try_add(q, INBOUND_QUEUE_SIZE, msg)

inbound_queue_has_space(iq, chunks_needed) ==
    LET available == INBOUND_QUEUE_SIZE - Len(iq)
    IN available > chunks_needed + 2

----------------------------------------------------------------------------
(* History variables.  req describes the request the network context is    *)
(* working on; it is reset when openai_poll dequeues a Request Descriptor. *)

ReqHist0 ==
    [ id            |-> 0,       \* number of the descriptor dequeued
      terminals     |-> <<>>,    \* terminal statuses enqueued by send_status
      dropped       |-> 0,       \* terminal statuses send_status could not enqueue
      frames        |-> <<>>,    \* payloads enqueued as DATA_READY
      decrypted     |-> <<>>,    \* bytes returned by mbedtls_ssl_read
      wire          |-> <<>>,    \* body bytes accepted by mbedtls_ssl_write
      done_seen     |-> FALSE,   \* a [DONE] payload was extracted
      after_done    |-> FALSE,   \* a DATA_READY was enqueued after [DONE]
      done_fwd      |-> FALSE,   \* a payload starting with [DONE] was enqueued
      pending       |-> <<>>,    \* <<frame>>: declined frame not yet delivered
      mismatch      |-> FALSE,   \* a re-extracted frame differed from the declined one
      declined      |-> FALSE,   \* some frame was declined
      closed_by     |-> "none",  \* how a peer close was seen in RECEIVING
      tail          |-> <<>>,    \* <<payload>>: undelimited payload buffered at that close
      fatal         |-> FALSE,   \* a fatal event happened
      connects      |-> 0,       \* tcp_connect calls issued
      reset_during  |-> FALSE,   \* reset-request was written while in flight
      by_count      |-> FALSE,   \* RECEIVING was entered by byte count
      took_old      |-> FALSE,   \* STREAMING_BODY dequeued an entry marked in bq_old
      lost          |-> FALSE ]  \* a declined frame did not fit back in the buffer

H_pop(r, frame) ==
    IF r.pending # <<>> /\ r.pending[1] # frame THEN [r EXCEPT !.mismatch = TRUE] ELSE r

H_decline(r, frame) ==
    [r EXCEPT !.declined = TRUE,
              !.pending = IF r.pending = <<>> THEN <<frame>> ELSE r.pending]

\* q is the result of queue_sse_frame; popped tells a frame popped by
\* sse_pop_frame from the flushed remainder of the buffer
H_queued(r, q, popped) ==
    [r EXCEPT !.pending = IF popped THEN <<>> ELSE @,
              !.frames = IF q.sent THEN Append(@, q.payload) ELSE @,
              !.after_done = @ \/ (q.sent /\ r.done_seen),
              !.done_fwd = @ \/ (q.sent /\ StartsWith(q.payload, STR_DONE)),
              !.done_seen = @ \/ q.is_done]

----------------------------------------------------------------------------
(* SSE frame detection (Core 1) *)

\* The delimiter search of sse_pop_frame: LF LF first, CR LF CR LF only if
\* the buffer holds no LF LF at all.
sse_find_delim(buf) ==
    LET nn == strstr(buf, STR_LFLF)
        rn == strstr(buf, STR_CRLFCRLF)
    IN IF nn >= 0 THEN [delim_len |-> 2, frame_len |-> nn]
       ELSE IF rn >= 0 THEN [delim_len |-> 4, frame_len |-> rn]
       ELSE [delim_len |-> 0, frame_len |-> 0]

sse_pop_frame(buf) ==
    LET d == sse_find_delim(buf)
    IN IF Len(buf) = 0 \/ d.delim_len = 0
       THEN [found |-> FALSE, frame |-> <<>>, buf |-> buf]
       ELSE [found |-> TRUE,
             frame |-> Take(buf, d.frame_len),
             buf   |-> Drop(buf, d.frame_len + d.delim_len)]

extract_sse_data(frame) ==
    LET at == strstr(frame, STR_DATA)
        payload == SkipSpaces(Drop(frame, at + 5))
    IN IF at < 0 THEN [is_done |-> FALSE, has |-> FALSE, payload |-> <<>>]
       ELSE IF StartsWith(payload, STR_DONE)
            THEN [is_done |-> TRUE, has |-> FALSE, payload |-> <<>>]
            ELSE [is_done |-> FALSE, has |-> TRUE, payload |-> payload]

\* queue_sse_frame: ok is the return value; sent tells whether a chunk was
\* enqueued and payload is that chunk's data.
queue_sse_frame(frame, iq, stream_done) ==
    LET x == extract_sse_data(frame)
        trimmed == TrimCRLF(x.payload)
        data == Take(trimmed, RESPONSE_CHUNK_SIZE - 1)
        none == [ok |-> TRUE, iq |-> iq, stream_done |-> stream_done,
                 is_done |-> FALSE, sent |-> FALSE, payload |-> <<>>]
    IN IF x.is_done THEN [none EXCEPT !.stream_done = TRUE, !.is_done = TRUE]
       ELSE IF ~x.has THEN none
       ELSE IF ~inbound_queue_has_space(iq, 1) THEN [none EXCEPT !.ok = FALSE]
       ELSE IF Len(trimmed) = 0 THEN none
       ELSE [none EXCEPT !.ok = Len(iq) < INBOUND_QUEUE_SIZE,
                         !.iq = queue_add_nonblocking(iq, Response(data, OAI_DATA_READY)),
                         !.sent = Len(iq) < INBOUND_QUEUE_SIZE,
                         !.payload = data]

\* A faulty variant: room is asked for a four-byte delimiter
reprepend_fits_crlf(frame, buf) == Len(frame) + 4 + Len(buf) < HTTP_BUF_SIZE

\* The room test of the backpressure branch: the frame, its two-byte
\* delimiter and the buffer, with the terminating NUL
reprepend_fits(frame, buf) == Len(frame) + 2 + Len(buf) < HTTP_BUF_SIZE

\* The backpressure branch of process_received_data: the declined frame is
\* put back in front of the buffer with an LF LF delimiter, if it fits.
reprepend_frame(frame, buf) ==
    IF reprepend_fits(frame, buf)
    THEN frame \o STR_LFLF \o buf
    ELSE buf

\* Header part of process_received_data
parse_http_headers(tls) ==
    LET header_end == strstr(tls.http_buf, STR_CRLFCRLF)
    IN IF tls.headers_complete THEN tls
       ELSE IF header_end >= 0
            THEN [tls EXCEPT !.headers_complete = TRUE,
                             !.http_buf = Drop(tls.http_buf, header_end + 4)]
            ELSE tls

\* The effect of an accepted queue_sse_frame(frame) with result q; buf is
\* the buffer that remains
frame_queued(W, q, buf, popped) ==
    [W EXCEPT !.tls.http_buf = buf,
              !.tls.stream_done = q.stream_done,
              !.iq = q.iq,
              !.h.iq_gid = IF q.sent THEN Append(@, W.h.req.id) ELSE @,
              !.h.req = H_queued(@, q, popped)]

\* The while loop of process_received_data
RECURSIVE pop_and_queue_frames(_)

\* The loop body after queue_sse_frame answered q for the popped frame p
frame_popped(W, p, q) ==
    IF ~q.ok
    THEN [W EXCEPT !.tls.http_buf = reprepend_frame(p.frame, p.buf),
                   !.h.req = [H_decline(H_pop(@, p.frame), p.frame) EXCEPT
                                 !.lost = @ \/ ~reprepend_fits(p.frame, p.buf)]]
    ELSE IF q.stream_done
         THEN frame_queued([W EXCEPT !.h.req = H_pop(@, p.frame)], q, p.buf, TRUE)
         ELSE pop_and_queue_frames(
                  frame_queued([W EXCEPT !.h.req = H_pop(@, p.frame)], q, p.buf, TRUE))

\* The loop after sse_pop_frame answered p
frames_from(W, p) ==
    IF ~p.found THEN W
    ELSE frame_popped(W, p, queue_sse_frame(p.frame, W.iq, W.tls.stream_done))

pop_and_queue_frames(W) == frames_from(W, sse_pop_frame(W.tls.http_buf))

\* The forced flush at the end of process_received_data
flush_final_frame(W, flush) ==
    IF flush /\ Len(W.tls.http_buf) > 0
    THEN frame_queued(W, queue_sse_frame(W.tls.http_buf, W.iq, W.tls.stream_done),
                      <<>>, FALSE)
    ELSE W

\* A faulty variant: the forced flush also runs before the header end
process_received_data_flush_early(W, flush) ==
    LET tls1 == parse_http_headers(W.tls)
    IN IF ~tls1.headers_complete THEN flush_final_frame(W, flush)
       ELSE flush_final_frame(pop_and_queue_frames([W EXCEPT !.tls = tls1]), flush)

process_received_data(W, flush) ==
    LET tls1 == parse_http_headers(W.tls)
    IN IF ~tls1.headers_complete THEN W
       ELSE flush_final_frame(pop_and_queue_frames([W EXCEPT !.tls = tls1]), flush)

\* What is left of buf once every complete frame has been popped
RECURSIVE UnframedRest(_)
UnframedRest(buf) ==
    IF sse_find_delim(buf).delim_len = 0 \/ Len(buf) = 0 THEN buf
    ELSE UnframedRest(sse_pop_frame(buf).buf)

\* <<payload>> if the undelimited rest of buf carries an event payload
TrailingPayload(buf) ==
    LET data == Take(TrimCRLF(extract_sse_data(UnframedRest(buf)).payload),
                     RESPONSE_CHUNK_SIZE - 1)
    IN IF data = <<>> THEN <<>> ELSE <<data>>

\* The frames queue_sse_frame forwards when buf is processed in one piece
\* and then flushed, with a consumer that keeps up
RECURSIVE OneShotFrames(_)
OneShotFrames(buf) ==
    LET p == sse_pop_frame(buf)
        q == queue_sse_frame(IF p.found THEN p.frame ELSE buf, <<>>, FALSE)
        here == IF q.sent THEN <<q.payload>> ELSE <<>>
    IN IF buf = <<>> \/ q.is_done THEN <<>>
       ELSE IF p.found THEN here \o OneShotFrames(p.buf)
       ELSE here

\* The decrypted bytes that follow the response head
ResponseBody(decrypted) ==
    IF strstr(decrypted, STR_CRLFCRLF) < 0 THEN <<>>
    ELSE Drop(decrypted, strstr(decrypted, STR_CRLFCRLF) + 4)

----------------------------------------------------------------------------
(* TLS connection context *)

TlsStates == {"IDLE", "DNS_RESOLVING", "CONNECTING", "TLS_HANDSHAKE", "SENDING_HEADERS",
              "STREAMING_BODY", "RECEIVING", "DONE", "ERROR"}

\* memset(&tls_ctx, 0, sizeof(tls_ctx)).  elapsed and state_elapsed stand for
\* now - start_time and now - state_time, saturated just above the timeouts.
\* partial_chunk_len, recv_len and http_len are the lengths of the sequences.
TlsZero ==
    [ state                |-> "IDLE",
      pcb                  |-> FALSE,
      mbedtls_initialized  |-> FALSE,
      body_content_length  |-> 0,
      body_bytes_sent      |-> 0,
      http_headers_sent    |-> FALSE,
      partial_chunk_buf    |-> <<>>,
      partial_chunk_offset |-> 0,
      send_len             |-> 0,
      send_offset          |-> 0,
      recv_buf             |-> <<>>,
      recv_offset          |-> 0,
      http_buf             |-> <<>>,
      headers_complete     |-> FALSE,
      stream_done          |-> FALSE,
      elapsed              |-> 0,
      state_elapsed        |-> 0 ]

\* Results of the mbedtls calls: a positive byte count, or one of these.
SSL_PEER_CLOSE == 0     \* mbedtls_ssl_read: MBEDTLS_ERR_SSL_PEER_CLOSE_NOTIFY or 0
SSL_WANT == -1          \* MBEDTLS_ERR_SSL_WANT_READ / WANT_WRITE
SSL_FATAL == -2         \* any other negative result

\* The transport can carry TLS traffic: the PCB exists and is connected.
LinkUp(W) == W.tls.pcb /\ W.net.conn = "est"

send_status(W, status) ==
    IF Len(W.iq) < INBOUND_QUEUE_SIZE
    THEN [W EXCEPT !.iq = queue_add_nonblocking(W.iq, Response(<<>>, status)),
                   !.h.iq_gid = Append(@, W.h.req.id),
                   !.h.req.terminals = Append(@, status)]
    ELSE [W EXCEPT !.h.req.dropped = @ + 1]

tls_cleanup(W) ==
    [W EXCEPT !.tls.pcb = FALSE,
              !.tls.mbedtls_initialized = FALSE,
              !.net.conn = IF W.tls.pcb THEN "none" ELSE @,
              !.net.stream = IF W.tls.pcb THEN <<>> ELSE @,
              !.net.fin = IF W.tls.pcb THEN FALSE ELSE @,
              !.h.open = IF W.tls.pcb THEN @ - 1 ELSE @]

\* start_request.  o.start is what the environment answers:
\*   "setup_fail"     RNG seed, TLS config or SSL setup fails
\*   "dns_cached"     dns_gethostbyname returns ERR_OK
\*   "dns_inprogress" dns_gethostbyname returns ERR_INPROGRESS
\*   "dns_err"        dns_gethostbyname returns another error
start_request(W, content_length, o) ==
    LET W0 == tls_cleanup(W)
        fresh == [TlsZero EXCEPT !.mbedtls_initialized = TRUE,
                                 !.body_content_length = content_length]
        W1 == [W0 EXCEPT !.tls = fresh]
    IN CASE o.start = "setup_fail" ->
              [ok |-> FALSE, W |-> W1]
         [] o.start = "dns_cached" ->
              [ok |-> TRUE, W |-> [W1 EXCEPT !.tls.state = "CONNECTING"]]
         [] o.start = "dns_inprogress" ->
              [ok |-> TRUE, W |-> [W1 EXCEPT !.tls.state = "DNS_RESOLVING",
                                             !.net.dns_cb = TRUE]]
         [] OTHER ->
              [ok |-> FALSE, W |-> [W1 EXCEPT !.tls.state = "DNS_RESOLVING"]]

\* mbedtls_ssl_write offered n bytes; o is the environment's answer
\* (a byte count, SSL_WANT or SSL_FATAL).  Without a working transport
\* mbedtls_lwip_send reports a reset connection.
mbedtls_ssl_write(W, n, o) ==
    IF ~LinkUp(W) THEN SSL_FATAL
    ELSE IF o > 0 THEN Min(o, n)
    ELSE o

\* mbedtls_ssl_handshake: 0 when complete
mbedtls_ssl_handshake(W, o) ==
    IF ~LinkUp(W) THEN SSL_FATAL ELSE o

\* Number of leading data bytes of s (those before a close_notify)
DataRun(s) ==
    IF \E i \in 1..Len(s) : s[i] = CLOSE_NOTIFY
    THEN (CHOOSE i \in 1..Len(s) :
              /\ s[i] = CLOSE_NOTIFY
              /\ \A j \in 1..(i - 1) : s[j] # CLOSE_NOTIFY) - 1
    ELSE Len(s)

\* mbedtls_ssl_read of at most space bytes, through mbedtls_lwip_recv, which
\* hands out recv_buf[recv_offset .. recv_len).  o.rd_k bounds the bytes one
\* call returns (the record size); o.rd_err makes the call fail.
mbedtls_ssl_read(tls, space, o) ==
    LET avail == Drop(tls.recv_buf, tls.recv_offset)
        n == Min(Min(o.rd_k, space), DataRun(avail))
    IN IF o.rd_err THEN [ret |-> SSL_FATAL, bytes |-> <<>>, tls |-> tls]
       ELSE IF tls.recv_offset >= Len(tls.recv_buf)
            THEN [ret |-> SSL_WANT, bytes |-> <<>>, tls |-> tls]
       ELSE IF Head(avail) = CLOSE_NOTIFY
            THEN [ret |-> SSL_PEER_CLOSE, bytes |-> <<>>,
                  tls |-> [tls EXCEPT !.recv_offset = @ + 1]]
       ELSE [ret |-> n, bytes |-> Take(avail, n),
             tls |-> [tls EXCEPT !.recv_offset = @ + n]]

----------------------------------------------------------------------------
(* poll_tls_state_machine, one operator per case of the switch.  o is the  *)
(* record of the environment's answers to the calls made during the poll.  *)

set_error(W) == [W EXCEPT !.tls.state = "ERROR", !.h.req.fatal = TRUE]

\* case TLS_STATE_DNS_RESOLVING
state_dns_resolving(W) ==
    IF W.tls.state_elapsed > DNS_TIMEOUT_MS THEN set_error(W) ELSE W

\* case TLS_STATE_CONNECTING
state_connecting(W, o) ==
    IF W.tls.pcb THEN W
    ELSE IF ~o.pcb_ok THEN set_error(W)
    ELSE IF ~o.connect_ok
         THEN [set_error(W) EXCEPT !.tls.pcb = TRUE, !.h.req.connects = @ + 1,
                                   !.h.open = @ + 1]
    ELSE [W EXCEPT !.tls.pcb = TRUE, !.tls.state_elapsed = 0,
                   !.net.conn = "syn", !.h.req.connects = @ + 1,
                   !.h.open = @ + 1]

\* A faulty variant: every nonzero handshake result is an error
state_tls_handshake_strict(W, o) ==
    LET ret == mbedtls_ssl_handshake(W, o.hs)
    IN IF ret = 0 THEN [W EXCEPT !.tls.state = "SENDING_HEADERS", !.tls.state_elapsed = 0]
       ELSE set_error(W)

\* case TLS_STATE_TLS_HANDSHAKE
state_tls_handshake(W, o) ==
    LET ret == mbedtls_ssl_handshake(W, o.hs)
    IN IF ret = 0 THEN [W EXCEPT !.tls.state = "SENDING_HEADERS", !.tls.state_elapsed = 0]
       ELSE IF ret # SSL_WANT THEN set_error(W)
       ELSE W

\* case TLS_STATE_SENDING_HEADERS
state_sending_headers(W, o) ==
    LET send_len == IF W.tls.send_len = 0 THEN HEADER_LEN ELSE W.tls.send_len
        ret == mbedtls_ssl_write(W, send_len - W.tls.send_offset, o.wr1)
        W1 == [W EXCEPT !.tls.send_len = send_len]
    IN IF ret > 0
       THEN IF W.tls.send_offset + ret >= send_len
            THEN [W1 EXCEPT !.tls.send_offset = @ + ret,
                            !.tls.state = "STREAMING_BODY",
                            !.tls.http_headers_sent = TRUE,
                            !.tls.state_elapsed = 0]
            ELSE [W1 EXCEPT !.tls.send_offset = @ + ret]
       ELSE IF ret # SSL_WANT THEN set_error(W1)
       ELSE W1

\* Entering RECEIVING: the encrypted-receive buffer is reset
enter_receiving(W) ==
    [W EXCEPT !.tls.state = "RECEIVING",
              !.tls.recv_buf = <<>>,
              !.tls.recv_offset = 0,
              !.tls.state_elapsed = 0]

\* A faulty variant: a new chunk is taken whatever is left of the last one
partial_pending_ignored(buf) == FALSE

\* if (tls_ctx.partial_chunk_len > 0) break;
partial_pending(buf) == Len(buf) > 0

\* STREAMING_BODY, first part: retry of the partial chunk.  stop tells that
\* the case ends here (break) without dequeuing a new chunk.
streaming_retry_partial(W, o) ==
    LET t == W.tls
        ret == mbedtls_ssl_write(W, Len(t.partial_chunk_buf) - t.partial_chunk_offset, o.wr1)
        off == t.partial_chunk_offset + ret
        sent == off >= Len(t.partial_chunk_buf)
    IN IF ret > 0
       THEN [stop |-> partial_pending(IF sent THEN <<>> ELSE t.partial_chunk_buf),
             W |-> [W EXCEPT !.tls.partial_chunk_offset = IF sent THEN 0 ELSE off,
                             !.tls.partial_chunk_buf = IF sent THEN <<>> ELSE @,
                             !.tls.body_bytes_sent = @ + ret,
                             !.h.req.wire = @ \o SubSeq(t.partial_chunk_buf,
                                                        t.partial_chunk_offset + 1, off)]]
       ELSE IF ret # SSL_WANT THEN [stop |-> TRUE, W |-> set_error(W)]
       ELSE [stop |-> partial_pending(t.partial_chunk_buf), W |-> W]

\* A faulty variant: the whole chunk is kept for the retry
unwritten_remainder_whole(data, ret) == data

\* The bytes of a chunk kept for the next poll after ret of them were written
unwritten_remainder(data, ret) == Drop(data, ret)

\* Body complete by byte count
body_count_reached(tls) == tls.body_bytes_sent >= tls.body_content_length

\* STREAMING_BODY, second part: a data chunk taken from the queue is written
streaming_write_chunk(W, chunk, o) ==
    LET ret == mbedtls_ssl_write(W, chunk.len, o.wr2)
        W1 == IF ret > 0
              THEN [W EXCEPT !.tls.body_bytes_sent = @ + ret,
                             !.h.req.wire = @ \o Take(chunk.data, ret),
                             !.tls.partial_chunk_buf =
                                 IF ret < chunk.len THEN unwritten_remainder(chunk.data, ret)
                                 ELSE @,
                             !.tls.partial_chunk_offset = 0]
              ELSE [W EXCEPT !.tls.partial_chunk_buf = chunk.data,
                             !.tls.partial_chunk_offset = 0]
    IN IF ret <= 0 /\ ret # SSL_WANT THEN set_error(W)
       ELSE IF body_count_reached(W1.tls)
            THEN [enter_receiving(W1) EXCEPT !.bq = <<>>, !.h.bq_old = <<>>,
                                             !.h.req.by_count = TRUE]
       ELSE W1

\* STREAMING_BODY, second part: try to get a new chunk from the queue
streaming_next_chunk(W, o) ==
    LET chunk == Head(W.bq)
        W1 == [W EXCEPT !.bq = Tail(W.bq),
                        !.h.bq_old = Tail(@),
                        !.h.req.took_old = @ \/ Head(W.h.bq_old)]
    IN IF W.bq = <<>> THEN W
       ELSE IF chunk.status = OAI_EOF /\ chunk.len = 0 THEN enter_receiving(W1)
       ELSE IF chunk.len > 0 THEN streaming_write_chunk(W1, chunk, o)
       ELSE W1

\* case TLS_STATE_STREAMING_BODY
state_streaming_body(W, o) ==
    LET p == streaming_retry_partial(W, o)
    IN IF Len(W.tls.partial_chunk_buf) > 0
       THEN IF p.stop THEN p.W ELSE streaming_next_chunk(p.W, o)
       ELSE streaming_next_chunk(W, o)

\* A successful mbedtls_ssl_read in RECEIVING: the bytes are appended to
\* http_buf and recv_buf is reset once it has been read to its end.
store_decrypted(W, rd) ==
    LET t == rd.tls
        drained == t.recv_offset >= Len(t.recv_buf)
    IN [W EXCEPT !.tls = [t EXCEPT !.http_buf = @ \o rd.bytes,
                                   !.recv_buf = IF drained THEN <<>> ELSE @,
                                   !.recv_offset = IF drained THEN 0 ELSE @],
                 !.h.req.decrypted = @ \o rd.bytes]

\* How a peer close seen by mbedtls_ssl_read is handled
on_tls_peer_close(W) ==
    [process_received_data(W, TRUE) EXCEPT
        !.tls.state = "DONE",
        !.h.req.closed_by = "tls",
        !.h.req.tail = IF W.tls.headers_complete THEN TrailingPayload(W.tls.http_buf)
                       ELSE <<>>]

\* How a read error is handled
on_tls_read_error(W) ==
    set_error(process_received_data(W, TRUE))

\* case TLS_STATE_RECEIVING: the while (true) loop.  Only the first read of a
\* poll can fail with o.rd_err.
RECURSIVE state_receiving(_, _)

\* The loop body after mbedtls_ssl_read answered rd
receiving_read(W, rd, o) ==
    IF rd.ret > 0
    THEN state_receiving(store_decrypted(W, rd), [o EXCEPT !.rd_err = FALSE])
    ELSE IF rd.ret = SSL_PEER_CLOSE THEN on_tls_peer_close([W EXCEPT !.tls = rd.tls])
    ELSE IF rd.ret = SSL_WANT THEN [W EXCEPT !.tls = rd.tls]
    ELSE on_tls_read_error([W EXCEPT !.tls = rd.tls])

\* The loop body after the buffered data was processed (if processed)
receiving_space(W, processed, o) ==
    IF processed /\ W.tls.stream_done THEN [W EXCEPT !.tls.state = "DONE"]
    ELSE IF HTTP_BUF_SIZE - Len(W.tls.http_buf) - 1 = 0 THEN W
    ELSE receiving_read(W, mbedtls_ssl_read(W.tls, HTTP_BUF_SIZE - Len(W.tls.http_buf) - 1, o), o)

state_receiving(W, o) ==
    IF Len(W.tls.http_buf) > 0
    THEN receiving_space(process_received_data(W, FALSE), TRUE, o)
    ELSE receiving_space(W, FALSE, o)

\* case TLS_STATE_DONE
state_done(W) ==
    [tls_cleanup(send_status(W, OAI_EOF)) EXCEPT !.tls.state = "IDLE"]

\* A faulty variant: the error path returns to IDLE without tls_cleanup
state_error_no_cleanup(W) ==
    [send_status(W, OAI_FAILED) EXCEPT !.tls.state = "IDLE"]

\* case TLS_STATE_ERROR
state_error(W) ==
    [tls_cleanup(send_status(W, OAI_FAILED)) EXCEPT !.tls.state = "IDLE"]

\* A timeout check that already fires at the limit
check_overall_timeout_at_limit(W) ==
    IF W.tls.elapsed >= OPENAI_TIMEOUT_MS THEN set_error(W) ELSE W

\* The overall timeout check that precedes the switch
check_overall_timeout(W) ==
    IF W.tls.elapsed > OPENAI_TIMEOUT_MS THEN set_error(W) ELSE W

poll_tls_state_machine(W, o) ==
    LET W1 == check_overall_timeout(W)
        st == W1.tls.state
    IN CASE st = "DNS_RESOLVING"   -> state_dns_resolving(W1)
         [] st = "CONNECTING"      -> state_connecting(W1, o)
         [] st = "TLS_HANDSHAKE"   -> state_tls_handshake(W1, o)
         [] st = "SENDING_HEADERS" -> state_sending_headers(W1, o)
         [] st = "STREAMING_BODY"  -> state_streaming_body(W1, o)
         [] st = "RECEIVING"       -> state_receiving(W1, o)
         [] st = "DONE"            -> state_done(W1)
         [] st = "ERROR"           -> state_error(W1)
         [] OTHER                  -> W1

\* A poll that takes a descriptor whatever the state
poll_any_state(tls) == TRUE

\* if (tls_ctx.state == TLS_STATE_IDLE)
poll_idle(tls) == tls.state = "IDLE"

\* The second half of openai_poll: in IDLE, take a Request Descriptor
poll_start_request(W, o) ==
    LET request == Head(W.oq)
        W1 == [W EXCEPT !.oq = Tail(W.oq),
                        !.h.req = [ReqHist0 EXCEPT !.id = request.gid]]
        sr == start_request(W1, request.content_length, o)
    IN IF ~poll_idle(W.tls) \/ W.oq = <<>> THEN W
       ELSE IF request.abort THEN [W1 EXCEPT !.iq = <<>>, !.h.iq_gid = <<>>]
       ELSE IF ~sr.ok THEN [send_status(sr.W, OAI_FAILED) EXCEPT !.h.req.fatal = TRUE]
       ELSE sr.W

openai_poll(W, o) ==
    poll_start_request(IF W.tls.state # "IDLE" THEN poll_tls_state_machine(W, o) ELSE W, o)

----------------------------------------------------------------------------
(* lwIP callbacks *)

\* The compaction at the head of tcp_recv_callback
compact_recv_buf(tls) ==
    IF tls.recv_offset > 0 /\ Len(tls.recv_buf) > (TLS_RECV_BUF_SIZE * 3) \div 4
    THEN [tls EXCEPT !.recv_buf = Drop(tls.recv_buf, tls.recv_offset), !.recv_offset = 0]
    ELSE tls

\* A faulty variant: the whole segment is stored
tcp_recv_data_all(W, p) ==
    LET t == compact_recv_buf(W.tls)
    IN [W EXCEPT !.tls = [t EXCEPT !.recv_buf = @ \o p]]

\* tcp_recv_callback with a segment p (ERR_OK): only what fits is stored
tcp_recv_data(W, p) ==
    LET t == compact_recv_buf(W.tls)
        space == TLS_RECV_BUF_SIZE - Len(t.recv_buf)
        copy == Min(Len(p), space)
    IN [W EXCEPT !.tls = [t EXCEPT !.recv_buf = @ \o Take(p, copy)]]

\* tcp_recv_callback with p == NULL: the peer closed the connection
tcp_recv_closed(W) ==
    [W EXCEPT !.tls.state = "DONE",
              !.h.req.closed_by = IF W.tls.state = "RECEIVING" THEN "tcp" ELSE @,
              !.h.req.tail = IF /\ W.tls.state = "RECEIVING" /\ W.tls.headers_complete
                                /\ W.tls.recv_offset >= Len(W.tls.recv_buf)
                             THEN TrailingPayload(W.tls.http_buf) ELSE @]

tcp_connected_callback(W, err_ok) ==
    IF ~err_ok THEN set_error(W)
    ELSE [W EXCEPT !.tls.state = "TLS_HANDSHAKE", !.tls.state_elapsed = 0]

tcp_err_callback(W) ==
    [set_error(W) EXCEPT !.tls.pcb = FALSE, !.h.open = @ - 1]

dns_callback(W, found) ==
    IF found THEN [W EXCEPT !.tls.state = "CONNECTING"]
    ELSE set_error(W)

----------------------------------------------------------------------------
(* Core 0: token parser *)

QUOTE == "\""
BACKSLASH == "\\"
TAB == "\t"
STR_FINISH == <<QUOTE, "f", "i", "n", "i", "s", "h", "_", "r", "e", "a", "s", "o", "n", QUOTE, ":">>
STR_CONTENT == <<QUOTE, "c", "o", "n", "t", "e", "n", "t", QUOTE, ":", QUOTE>>

RECURSIVE SkipBlanks(_)
SkipBlanks(s) == IF s # <<>> /\ Head(s) \in {SP, TAB} THEN SkipBlanks(Tail(s)) ELSE s

\* Length of the content string: up to the closing quote, escapes skipped
RECURSIVE ContentLen(_, _)
ContentLen(s, len) ==
    IF s = <<>> \/ len >= 1024 THEN len
    ELSE IF Head(s) = BACKSLASH /\ Len(s) >= 2 THEN ContentLen(Drop(s, 2), len + 2)
    ELSE IF Head(s) = QUOTE THEN len
    ELSE ContentLen(Tail(s), len + 1)

\* Decoding of the JSON escapes \n \r \t \" \\
RECURSIVE DecodeEscapes(_)
DecodeEscapes(s) ==
    IF s = <<>> THEN <<>>
    ELSE IF Head(s) = BACKSLASH /\ Len(s) >= 2
         THEN CASE s[2] = "n"       -> <<LF>> \o DecodeEscapes(Drop(s, 2))
                [] s[2] = "r"       -> <<CR>> \o DecodeEscapes(Drop(s, 2))
                [] s[2] = "t"       -> <<TAB>> \o DecodeEscapes(Drop(s, 2))
                [] s[2] = QUOTE     -> <<QUOTE>> \o DecodeEscapes(Drop(s, 2))
                [] s[2] = BACKSLASH -> <<BACKSLASH>> \o DecodeEscapes(Drop(s, 2))
                [] OTHER            -> <<BACKSLASH>> \o DecodeEscapes(Tail(s))
    ELSE <<Head(s)>> \o DecodeEscapes(Tail(s))

\* finish_reason is present and its value does not start with n(ull)
finish_reason_set(json) ==
    LET at == strstr(json, STR_FINISH)
        v == SkipBlanks(Drop(json, at + 16))
    IN at >= 0 /\ (v = <<>> \/ Head(v) # "n")

parse_sse_frame(json) ==
    LET at == strstr(json, STR_CONTENT)
        start == Drop(json, at + 11)
        len == ContentLen(start, 0)
        none == [is_done |-> FALSE, has |-> FALSE, token |-> <<>>]
    IN IF json = <<>> THEN none
       ELSE IF finish_reason_set(json) THEN [none EXCEPT !.is_done = TRUE]
       ELSE IF at < 0 \/ len = 0 THEN none
       ELSE [none EXCEPT !.has = TRUE, !.token = DecodeEscapes(Take(start, len))]

----------------------------------------------------------------------------
(* Core 0: port handlers.  chunk_index and response_bytes_available are    *)
(* the lengths of chunk_buffer and response_buffer.                        *)

\* memset(&port_state, 0, ...); port_state.status = OAI_EOF  (openai_io_init)
PortZero ==
    [ content_length       |-> 0,
      content_length_lo    |-> 0,
      content_length_ready |-> FALSE,
      chunk_buffer         |-> <<>>,
      status               |-> OAI_EOF,
      request_pending      |-> FALSE,
      body_complete        |-> FALSE,
      response_buffer      |-> <<>>,
      response_position    |-> 0,
      response_complete    |-> FALSE ]

Op(name, arg, ret) == [name |-> name, arg |-> arg, ret |-> ret, byte |-> "", gid |-> -1]

\* OUT 120, up to the end of the first drain loop: the port state is cleared
\* and the inbound queue is empty
out_reset_request_clear(W) ==
    [W EXCEPT !.ps = [PortZero EXCEPT !.status = OAI_WAITING,
                                      !.response_buffer = <<>>],
              !.iq = <<>>,
              !.h.iq_gid = <<>>,
              !.h.cmd = [epoch |-> W.h.cmd.epoch + 1, written |-> <<>>, own |-> FALSE,
                         read |-> <<>>],
              !.h.req.reset_during = @ \/ W.tls.state # "IDLE",
              !.h.pc = "drain",
              !.h.op = Op("ResetRequestClear", 0, 0)]

\* OUT 120, the rest: the body-chunk and request-start queues are drained
out_reset_request_drain(W) ==
    [W EXCEPT !.bq = <<>>, !.oq = <<>>,
              !.h.bq_old = <<>>,
              !.h.pc = "run",
              !.h.op = Op("ResetRequest", 0, 0)]

\* OUT 120
out_reset_request(W) == out_reset_request_drain(out_reset_request_clear(W))

\* OUT 121 with a data byte: the byte is stored unless the chunk buffer is
\* full, and a full chunk buffer is queued
out_add_byte(W, data) ==
    LET ps == W.ps
        buf == IF Len(ps.chunk_buffer) < REQUEST_CHUNK_SIZE - 1
               THEN Append(ps.chunk_buffer, data) ELSE ps.chunk_buffer
        W1 == [W EXCEPT !.h.cmd.written = Append(@, data), !.h.op = Op("AddByte", 1, 0)]
    IN IF Len(buf) >= REQUEST_CHUNK_SIZE - 1
       THEN IF queue_is_full(W.bq, BODY_CHUNK_QUEUE_SIZE)
            THEN [W1 EXCEPT !.ps.chunk_buffer = buf, !.ps.status = OAI_FAILED]
            ELSE [W1 EXCEPT !.ps.chunk_buffer = <<>>,
                            !.bq = Append(@, Response(buf, OAI_DATA_READY)),
                            !.h.bq_old = Append(@, FALSE)]
       ELSE [W1 EXCEPT !.ps.chunk_buffer = buf]

\* OUT 121 with NUL: flush the staged bytes and queue the end marker
out_add_nul(W) ==
    LET ps == W.ps
        staged == Len(ps.chunk_buffer) > 0
        bq1 == IF staged THEN Append(W.bq, Response(ps.chunk_buffer, OAI_DATA_READY)) ELSE W.bq
        W1 == [W EXCEPT !.h.op = Op("AddByte", 0, 0)]
    IN IF staged /\ queue_is_full(W.bq, BODY_CHUNK_QUEUE_SIZE)
       THEN [W1 EXCEPT !.ps.status = OAI_FAILED]
       ELSE IF queue_is_full(bq1, BODY_CHUNK_QUEUE_SIZE)
            THEN [W1 EXCEPT !.bq = bq1, !.ps.chunk_buffer = <<>>, !.ps.status = OAI_FAILED,
                            !.h.bq_old = IF staged THEN Append(@, FALSE) ELSE @]
       ELSE [W1 EXCEPT !.bq = Append(bq1, Response(<<>>, OAI_EOF)),
                       !.ps.chunk_buffer = <<>>,
                       !.ps.body_complete = TRUE,
                       !.h.bq_old = IF staged THEN @ \o <<FALSE, FALSE>> ELSE Append(@, FALSE)]

\* A faulty variant: the reset also discards the request side
out_reset_response_all(W) ==
    [W EXCEPT !.ps.response_buffer = <<>>,
              !.ps.response_position = 0,
              !.ps.response_complete = FALSE,
              !.ps.status = OAI_WAITING,
              !.ps.chunk_buffer = <<>>,
              !.iq = <<>>,
              !.bq = <<>>,
              !.h.iq_gid = <<>>,
              !.h.op = Op("ResetResponse", 0, 0)]

\* OUT 122
out_reset_response(W) ==
    [W EXCEPT !.ps.response_buffer = <<>>,
              !.ps.response_position = 0,
              !.ps.response_complete = FALSE,
              !.ps.status = OAI_WAITING,
              !.iq = <<>>,
              !.h.iq_gid = <<>>,
              !.h.op = Op("ResetResponse", 0, 0)]

\* OUT 126
out_set_len_lo(W, data) ==
    [W EXCEPT !.ps.content_length_lo = data, !.h.op = Op("SetLenLo", data, 0)]

\* A faulty variant: the two bytes assembled high byte first
assemble_length_hi_first(lo, hi) == (hi + lo * 256) % 65536

\* The 16-bit value assembled by OUT 127
assemble_length(lo, hi) == (lo + hi * 256) % 65536

\* A faulty variant: the largest length is rejected too
length_rejected_from_max(len) == len >= MAX_CONTENT_LENGTH

\* The sanity check of OUT 127
length_rejected(len) == len > MAX_CONTENT_LENGTH

\* OUT 127
out_set_len_hi(W, data) ==
    LET len == assemble_length(W.ps.content_length_lo, data)
        W1 == [W EXCEPT !.h.op = Op("SetLenHi", data, 0)]
    IN IF length_rejected(len)
       THEN [W1 EXCEPT !.ps.content_length = 0, !.ps.content_length_ready = FALSE]
       ELSE [W1 EXCEPT !.ps.content_length = len, !.ps.content_length_ready = TRUE]

\* A trigger that looks at the ready flag only
trigger_armed_by_flag(ps) == ps.content_length_ready

\* if (port_state.content_length_ready && port_state.content_length > 0)
trigger_armed(ps) == ps.content_length_ready /\ ps.content_length > 0

\* IN 120: trigger
in_trigger(W) ==
    LET request == [content_length |-> W.ps.content_length, abort |-> FALSE,
                    gid |-> W.h.cmd.epoch]
    IN IF trigger_armed(W.ps) /\ ~queue_is_full(W.oq, OUTBOUND_QUEUE_SIZE)
       THEN [W EXCEPT !.oq = Append(@, request),
                      !.ps.request_pending = TRUE,
                      !.ps.status = OAI_WAITING,
                      !.h.bq_old = [i \in DOMAIN @ |-> @[i] \/ W.h.req.by_count],
                      !.h.op = Op("Trigger", 0, 1)]
       ELSE [W EXCEPT !.h.op = Op("Trigger", 0, 0)]

\* IN 121 / IN 122
in_get_len_lo(W) == [W EXCEPT !.h.op = Op("GetLenLo", 0, W.ps.content_length % 256)]
in_get_len_hi(W) == [W EXCEPT !.h.op = Op("GetLenHi", 0, (W.ps.content_length \div 256) % 256)]

\* A faulty variant: a payload without token and without finish_reason is
\* treated as a failure
apply_response_strict(ps, response, clear) ==
    LET f == parse_sse_frame(response.data)
    IN IF response.status \in {OAI_EOF, OAI_FAILED}
       THEN [ps EXCEPT !.response_complete = TRUE, !.status = response.status,
                       !.response_buffer = IF clear THEN <<>> ELSE @,
                       !.response_position = IF clear THEN 0 ELSE @]
       ELSE IF f.has /\ ~f.is_done
            THEN [ps EXCEPT !.response_buffer = Take(f.token, RESPONSE_CHUNK_SIZE - 1),
                            !.response_position = 0,
                            !.status = OAI_DATA_READY]
            ELSE [ps EXCEPT !.response_complete = TRUE,
                            !.status = IF f.is_done THEN OAI_EOF ELSE OAI_FAILED,
                            !.response_buffer = IF clear THEN <<>> ELSE @,
                            !.response_position = IF clear THEN 0 ELSE @]

\* A message taken from the inbound queue is applied to the port state.
\* clear tells whether the staging buffer is emptied when the message
\* carries no token (the get-byte variant) or left alone (the status variant).
apply_response(ps, response, clear) ==
    LET f == parse_sse_frame(response.data)
        ps0 == IF clear THEN [ps EXCEPT !.response_buffer = <<>>, !.response_position = 0]
               ELSE ps
    IN IF response.status \in {OAI_EOF, OAI_FAILED}
       THEN [ps0 EXCEPT !.response_complete = TRUE, !.status = response.status]
       ELSE IF response.status = OAI_DATA_READY /\ response.len > 0
            THEN IF f.is_done
                 THEN [ps0 EXCEPT !.response_complete = TRUE, !.status = OAI_EOF]
                 ELSE IF f.has
                      THEN [ps EXCEPT !.response_buffer = Take(f.token, RESPONSE_CHUNK_SIZE - 1),
                                      !.response_position = 0,
                                      !.status = OAI_DATA_READY]
                 ELSE [ps0 EXCEPT !.status = OAI_WAITING]
       ELSE ps

\* The command context takes the head of the inbound queue
take_inbound(W, clear) ==
    [W EXCEPT !.ps = apply_response(W.ps, Head(W.iq), clear),
              !.iq = Tail(W.iq),
              !.h.iq_gid = Tail(W.h.iq_gid),
              !.h.op.gid = Head(W.h.iq_gid),
              !.h.cmd.own = @ \/ Head(W.h.iq_gid) = W.h.cmd.epoch]

unread_byte(ps) ==
    Len(ps.response_buffer) > 0 /\ ps.response_position < Len(ps.response_buffer)

\* The value a status read reports once BUSY is ruled out
status_value(ps) ==
    IF unread_byte(ps) THEN OAI_DATA_READY
    ELSE IF ps.response_complete THEN OAI_EOF
    ELSE OAI_WAITING

\* A flow-control test that fires one chunk early
status_busy_early(bq) == Len(bq) >= BODY_CHUNK_QUEUE_SIZE - 1

\* The flow-control test at the head of the status read
status_busy(bq) == queue_is_full(bq, BODY_CHUNK_QUEUE_SIZE)

\* A faulty variant: the status read takes a message whenever there is one
staging_ignored(ps) == TRUE

\* The status read takes a message only when the staging buffer is empty
staging_empty(ps) == Len(ps.response_buffer) = 0

\* IN 123: status
in_get_status(W) ==
    LET W0 == [W EXCEPT !.h.op = Op("GetStatus", 0, 0)]
        W1 == IF staging_empty(W.ps) /\ W.iq # <<>>
              THEN take_inbound(W0, FALSE) ELSE W0
    IN IF status_busy(W.bq) THEN [W0 EXCEPT !.h.op.ret = OAI_BUSY]
       ELSE [W1 EXCEPT !.h.op.ret = status_value(W1.ps)]

\* IN 124: get byte
in_get_byte(W) ==
    LET ps == W.ps
        W0 == [W EXCEPT !.h.op = Op("GetByte", 0, 0)]
        W1 == [W0 EXCEPT !.ps.response_position = @ + 1,
                         !.h.op.ret = 1,
                         !.h.op.byte = ps.response_buffer[ps.response_position + 1],
                         !.h.cmd.read = Append(@, ps.response_buffer[ps.response_position + 1])]
    IN IF ~unread_byte(ps) THEN W0
       ELSE IF ps.response_position + 1 < Len(ps.response_buffer) THEN W1
       ELSE IF W.iq # <<>> THEN take_inbound(W1, TRUE)
       ELSE [W1 EXCEPT !.ps.response_buffer = <<>>,
                       !.ps.response_position = 0,
                       !.ps.status = IF ps.status = OAI_DATA_READY /\ ~ps.response_complete
                                     THEN OAI_WAITING ELSE @]

\* IN 125: is complete
in_is_complete(W) ==
    [W EXCEPT !.h.op = Op("IsComplete", 0, IF W.ps.response_complete THEN 1 ELSE 0)]

----------------------------------------------------------------------------
(* WebSocket bridge: keep-alive (src/ws.cpp).  The server is listening and *)
(* the output callback is set.  due tells whether the time has reached     *)
(* g_ws_next_ping_deadline.  The counters are uint8_t.                     *)

WS_MAX_MISSED_PONGS == 3

\* The statics of ws.cpp before the first client; late and op are history:
\* late counts the ping deadlines handled for the current connection while
\* a ping was unanswered, since its last pong
WsZero ==
    [ active_clients |-> 0,
      last_conn_id   |-> 0,
      pending_pings  |-> 0,
      missed_pongs   |-> 0,
      due            |-> TRUE,
      late           |-> 0,
      op             |-> [name |-> "init", id |-> 0] ]

reset_ping_state(w) ==
    [w EXCEPT !.pending_pings = 0, !.missed_pongs = 0, !.due = FALSE]

mark_connection_closed(w) ==
    reset_ping_state([w EXCEPT !.active_clients = 0, !.last_conn_id = 0])

\* The close test of send_ping_if_due
too_many_missed(missed) == missed > WS_MAX_MISSED_PONGS

\* ping_ok is the result of sendPing
send_ping_if_due(w, ping_ok) ==
    LET missed1 == IF w.pending_pings > 0 THEN (w.missed_pongs + 1) % 256
                   ELSE w.missed_pongs
        missed2 == (missed1 + 1) % 256
    IN IF w.active_clients = 0 \/ w.last_conn_id = 0 THEN w
       ELSE IF ~w.due THEN w
       ELSE IF w.pending_pings > 0 /\ too_many_missed(missed1)
            THEN mark_connection_closed([w EXCEPT !.missed_pongs = missed1])
       ELSE IF ping_ok
            THEN [w EXCEPT !.missed_pongs = missed1,
                           !.pending_pings = (@ + 1) % 256,
                           !.due = FALSE]
       ELSE IF too_many_missed(missed2)
            THEN mark_connection_closed([w EXCEPT !.missed_pongs = missed2])
       ELSE [w EXCEPT !.missed_pongs = missed2, !.due = FALSE]

\* ws_poll_outgoing; the terminal output it broadcasts afterwards is not
\* part of the keep-alive state
ws_poll_outgoing(w, ping_ok) ==
    IF w.active_clients = 0 THEN w ELSE send_ping_if_due(w, ping_ok)

handle_connect(w, conn_id) ==
    reset_ping_state([w EXCEPT !.active_clients = @ + 1, !.last_conn_id = conn_id])

handle_close(w, conn_id) ==
    LET w1 == [w EXCEPT !.active_clients = IF @ > 0 THEN @ - 1 ELSE @]
    IN IF conn_id = w.last_conn_id
       THEN reset_ping_state([w1 EXCEPT !.last_conn_id = 0])
       ELSE w1

handle_pong(w, conn_id) ==
    IF conn_id # w.last_conn_id THEN w ELSE reset_ping_state(w)

----------------------------------------------------------------------------
(* State, initial state and actions *)

World ==
    [ tls |-> tls_ctx, ps |-> port_state, oq |-> outbound_queue,
      bq |-> body_chunk_queue, iq |-> inbound_queue, net |-> net, h |-> hist ]

Commit(W) ==
    /\ tls_ctx' = W.tls
    /\ port_state' = W.ps
    /\ outbound_queue' = W.oq
    /\ body_chunk_queue' = W.bq
    /\ inbound_queue' = W.iq
    /\ net' = W.net
    /\ hist' = W.h
    /\ ws' = ws

\* The network side of a step: the last operation is no port access
Net(W) == [W EXCEPT !.h.op = Op("none", 0, 0)]

\* openai_io_init; the peer's response script is fixed per run
InitWith(scripts) ==
    /\ tls_ctx = TlsZero
    /\ port_state = PortZero
    /\ outbound_queue = <<>>
    /\ body_chunk_queue = <<>>
    /\ inbound_queue = <<>>
    /\ net \in [dns_cb : {FALSE}, conn : {"none"}, stream : {<<>>}, fin : {FALSE},
                script : scripts]
    /\ hist = [ op |-> Op("init", 0, 0), req |-> ReqHist0, iq_gid |-> <<>>,
                cmd |-> [epoch |-> 0, written |-> <<>>, own |-> FALSE,
                         read |-> <<>>],   \* bytes get-byte returned
                open |-> 0,     \* PCBs created by tcp_new and not yet closed
                pc |-> "run",   \* "drain": Core 0 is inside the reset-request drain
                bq_old |-> <<>> ]  \* per body-chunk queue entry: it was enqueued
                                   \* before the latest trigger, for a request
                                   \* whose body ended by byte count
    /\ ws = WsZero

\* Largest byte count an mbedtls call is asked to move in the model
MaxIo == 64

\* The environment's answers when nothing goes wrong and nothing blocks
Smooth ==
    [ start |-> "dns_inprogress", pcb_ok |-> TRUE, connect_ok |-> TRUE, hs |-> 0,
      wr1 |-> MaxIo, wr2 |-> MaxIo, rd_k |-> MaxIo, rd_err |-> FALSE ]

\* The answers that matter in the current state.  starts, hss, writes and
\* reads are the sets the environment answers from; rd_errs tells whether
\* a read may fail.
Oracles(starts, oks, hss, writes, reads, rd_errs) ==
    LET st == tls_ctx.state
    IN CASE st \in {"IDLE", "DONE", "ERROR", "DNS_RESOLVING"} ->
              {[Smooth EXCEPT !.start = a] : a \in starts}
         [] st = "CONNECTING" ->
              IF tls_ctx.pcb THEN {Smooth}
              ELSE {[Smooth EXCEPT !.pcb_ok = a, !.connect_ok = b] :
                        a \in oks, b \in oks}
         [] st = "TLS_HANDSHAKE" -> {[Smooth EXCEPT !.hs = a] : a \in hss}
         [] st = "SENDING_HEADERS" -> {[Smooth EXCEPT !.wr1 = a] : a \in writes}
         [] st = "STREAMING_BODY" ->
              {[Smooth EXCEPT !.wr1 = a, !.wr2 = b] : a \in writes, b \in writes}
         [] OTHER ->
              {[Smooth EXCEPT !.rd_k = a, !.rd_err = b] : a \in reads, b \in rd_errs}

\* Core 1: one call of openai_poll
Poll(os) ==
    /\ tls_ctx.state # "IDLE" \/ outbound_queue # <<>>
    /\ \E o \in os : Commit(openai_poll(Net(World), o))

\* lwIP: the resolver answers
DnsCallback(founds) ==
    /\ net.dns_cb
    /\ \E found \in founds :
         Commit([dns_callback(Net(World), found) EXCEPT !.net.dns_cb = FALSE])

\* lwIP: the connection is established; the peer starts its script
TcpConnected ==
    /\ tls_ctx.pcb /\ net.conn = "syn"
    /\ Commit([tcp_connected_callback(Net(World), TRUE)
                  EXCEPT !.net.conn = "est", !.net.stream = net.script])

\* lwIP: a segment of at most k bytes arrives.  early tells whether the peer may
\* answer before the request body is complete.
TcpRecv(k, early) ==
    /\ tls_ctx.pcb /\ net.conn = "est" /\ ~net.fin
    /\ tls_ctx.state = "RECEIVING" \/ (early /\ tls_ctx.http_headers_sent)
    /\ net.stream # <<>>
    /\ Commit([tcp_recv_data(Net(World), Take(net.stream, k))
                  EXCEPT !.net.stream = Drop(net.stream, k)])

\* lwIP: the peer's FIN arrives (p == NULL); it sends nothing afterwards
TcpRecvClosed ==
    /\ tls_ctx.pcb /\ net.conn = "est" /\ ~net.fin
    /\ Commit([tcp_recv_closed(Net(World))
                  EXCEPT !.net.fin = TRUE, !.net.stream = <<>>])

\* lwIP: the connection is refused, reset or aborted; the PCB is gone
TcpErr ==
    /\ tls_ctx.pcb /\ net.conn \in {"syn", "est"}
    /\ Commit([tcp_err_callback(Net(World))
                  EXCEPT !.net.conn = "none", !.net.stream = <<>>, !.net.fin = FALSE])

\* Time passes
Tick ==
    /\ tls_ctx.elapsed <= OPENAI_TIMEOUT_MS \/ tls_ctx.state_elapsed <= DNS_TIMEOUT_MS
    /\ Commit([Net(World) EXCEPT
                  !.tls.elapsed = Min(@ + 1, OPENAI_TIMEOUT_MS + 1),
                  !.tls.state_elapsed = Min(@ + 1, DNS_TIMEOUT_MS + 1)])

\* Core 0: port accesses
CmdResetRequest == Commit(out_reset_request(World))
\* The same write where Core 1 may run between the drain loops
CmdResetRequestClear == Commit(out_reset_request_clear(World))
CmdResetRequestDrain == Commit(out_reset_request_drain(World))
CmdAddByte(d) == Commit(out_add_byte(World, d))
CmdAddNul == Commit(out_add_nul(World))
CmdResetResponse == Commit(out_reset_response(World))
CmdSetLenLo(d) == Commit(out_set_len_lo(World, d))
CmdSetLenHi(d) == Commit(out_set_len_hi(World, d))
CmdTrigger == Commit(in_trigger(World))
CmdGetLenLo == Commit(in_get_len_lo(World))
CmdGetLenHi == Commit(in_get_len_hi(World))
CmdGetStatus == Commit(in_get_status(World))
CmdGetByte == Commit(in_get_byte(World))
CmdIsComplete == Commit(in_is_complete(World))

----------------------------------------------------------------------------
(* Peer responses.  The response head is H CR LF CR LF. *)

HDR == <<"H", CR, LF, CR, LF>>
Data(x) == STR_DATA \o x
Token(x) == STR_CONTENT \o x \o <<QUOTE>>

----------------------------------------------------------------------------
(* The command context as a client that follows the port protocol:         *)
(* reset, set length, trigger, body bytes while not BUSY, NUL, then status *)
(* and get-byte.                                                           *)

MaxRequests == 2     \* reset-request writes per run
SegSmall == 8        \* size of a small TCP segment

ClientFresh == hist.cmd.epoch > 0 /\ ~port_state.request_pending
CanSetLenLo == ClientFresh /\ ~port_state.content_length_ready /\ port_state.content_length_lo = 0
CanSetLenHi == ClientFresh /\ ~port_state.content_length_ready /\ port_state.content_length_lo # 0
CanTrigger == ClientFresh /\ port_state.content_length_ready
CanAddByte ==
    /\ port_state.request_pending
    /\ Len(hist.cmd.written) < port_state.content_length
    /\ ~status_busy(body_chunk_queue)
CanAddNul ==
    /\ port_state.request_pending
    /\ Len(hist.cmd.written) = port_state.content_length
    /\ ~port_state.body_complete
CanRead == port_state.request_pending /\ Len(hist.cmd.written) = port_state.content_length
\* The client resets before its first request and after a terminal status;
\* midflight allows a reset while a request is in flight.
CanReset(midflight) ==
    /\ hist.cmd.epoch < MaxRequests
    /\ midflight \/ hist.cmd.epoch = 0 \/ port_state.response_complete

\* The i-th body byte the client writes
BodyBytes == <<"a", "b", "c", "d", "e", "f", "g", "h">>
NextBodyByte == BodyBytes[Len(hist.cmd.written) + 1]

----------------------------------------------------------------------------
(* Specification SpecBody: a protocol-following client streams bodies of   *)
(* 1..MaxBody bytes; every TLS write may be complete, partial, blocked or  *)
(* failing, and the connection may be reset or closed at any time.         *)

MaxBody == 5         \* longest request body

\* The peer answers with a bare response head and closes
ScriptHead == HDR \o <<CLOSE_NOTIFY>>

InitBody == InitWith({ScriptHead})

BodyOracle ==
    Oracles({"dns_cached", "dns_inprogress"}, {TRUE}, {0},
            {MaxIo, 1, SSL_WANT, SSL_FATAL}, {MaxIo}, {FALSE})

NextBody ==
    \/ Poll(BodyOracle)
    \/ DnsCallback({TRUE})
    \/ TcpConnected
    \/ TcpRecv(MaxIo, FALSE)
    \/ TcpRecvClosed
    \/ TcpErr
    \/ CanReset(FALSE) /\ CmdResetRequest
    \/ CanSetLenLo /\ \E d \in 1..MaxBody : CmdSetLenLo(d)
    \/ CanSetLenHi /\ CmdSetLenHi(0)
    \/ CanTrigger /\ CmdTrigger
    \/ CanAddByte /\ CmdAddByte(NextBodyByte)
    \/ CanAddNul /\ CmdAddNul
    \/ CanRead /\ CmdGetStatus

SpecBody == InitBody /\ [][NextBody]_vars

C22_CountReachedEntersReceiving ==
    tls_ctx.state = "STREAMING_BODY" =>
        tls_ctx.body_bytes_sent < tls_ctx.body_content_length

\* The bytes of the partial chunk not yet written
Remainder == Drop(tls_ctx.partial_chunk_buf, tls_ctx.partial_chunk_offset)

\* The step takes the head of the body-chunk queue
TakesChunk == Len(body_chunk_queue') < Len(body_chunk_queue)

\* C24: in a step of the network context from STREAMING_BODY the body-chunk
\* queue only loses entries from its head; an entry is taken only after the
\* remainder of the partial chunk has gone to the wire; unless the step
\* fails, the bytes on the wire followed by the remainder grow by exactly
\* the data of the entry taken (nothing lost, nothing written twice); and the
\* remainder is a tail of the old remainder or of the entry taken.
C24_ChunkTakenOnceRemainderFirst ==
    [][ (hist'.op.name = "none" /\ tls_ctx.state = "STREAMING_BODY"
            /\ hist'.req.id = hist.req.id) =>
          /\ \E k \in 0..Len(body_chunk_queue) :
                 body_chunk_queue' = Drop(body_chunk_queue, k)
          /\ TakesChunk => IsPrefix(hist.req.wire \o Remainder, hist'.req.wire)
          /\ tls_ctx'.state # "ERROR" =>
                 hist'.req.wire \o Remainder' =
                     hist.req.wire \o Remainder
                         \o (IF TakesChunk THEN Head(body_chunk_queue).data ELSE <<>>)
          /\ \/ \E k \in 0..Len(Remainder) : Remainder' = Drop(Remainder, k)
             \/ /\ TakesChunk
                /\ \E k \in 0..Head(body_chunk_queue).len :
                       Remainder' = Drop(Head(body_chunk_queue).data, k) ]_vars

\* The second chunk is partly written, its last byte is kept in the
\* partial-chunk buffer, and the third chunk waits in the queue
C24_Witness ==
    /\ tls_ctx.state = "STREAMING_BODY"
    /\ hist.op.name = "none"
    /\ Len(hist.req.wire) = REQUEST_CHUNK_SIZE
    /\ Remainder = <<"d">>
    /\ body_chunk_queue # <<>>
    /\ tls_ctx.body_content_length = MaxBody

\* The case of the switch for the three states that call the TLS layer
TlsCase(W, o) ==
    CASE W.tls.state = "TLS_HANDSHAKE"   -> state_tls_handshake(W, o)
      [] W.tls.state = "SENDING_HEADERS" -> state_sending_headers(W, o)
      [] W.tls.state = "STREAMING_BODY"  -> state_streaming_body(W, o)
      [] OTHER                           -> W

\* In the current state that case calls mbedtls_ssl_handshake or
\* mbedtls_ssl_write
TlsCallMade ==
    \/ tls_ctx.state \in {"TLS_HANDSHAKE", "SENDING_HEADERS"}
    \/ /\ tls_ctx.state = "STREAMING_BODY"
       /\ \/ tls_ctx.partial_chunk_buf # <<>>
          \/ body_chunk_queue # <<>> /\ Head(body_chunk_queue).len > 0

\* Every TLS call would block / fails / the retry succeeds and the write of
\* the next chunk would block
AllWant == [Smooth EXCEPT !.hs = SSL_WANT, !.wr1 = SSL_WANT, !.wr2 = SSL_WANT]
AllFatal == [Smooth EXCEPT !.hs = SSL_FATAL, !.wr1 = SSL_FATAL, !.wr2 = SSL_FATAL]
NextWant == [Smooth EXCEPT !.wr2 = SSL_WANT]

\* The bytes of W's partial chunk not yet written
RemainderOf(W) == Drop(W.tls.partial_chunk_buf, W.tls.partial_chunk_offset)

\* C29: in every reachable state where the case of TLS_HANDSHAKE,
\* SENDING_HEADERS or STREAMING_BODY calls the TLS layer: if the call would
\* block, the state, the header send offset, the body byte counter and the
\* bytes on the wire stay as they are and in STREAMING_BODY the bytes
\* offered (the remainder of the partial chunk, or else the chunk just
\* taken) are those kept for the next poll; if only the write of a chunk
\* taken after a complete retry would block, that chunk is kept whole; and
\* if the call fails otherwise the state becomes ERROR.
C29_WouldBlockKeepsBytes ==
    TlsCallMade =>
        /\ LinkUp(World) =>
               /\ TlsCase(World, AllWant).tls.state = tls_ctx.state
               /\ TlsCase(World, AllWant).tls.send_offset = tls_ctx.send_offset
               /\ TlsCase(World, AllWant).tls.body_bytes_sent = tls_ctx.body_bytes_sent
               /\ TlsCase(World, AllWant).h.req.wire = hist.req.wire
               /\ tls_ctx.state = "STREAMING_BODY" =>
                      RemainderOf(TlsCase(World, AllWant)) =
                          IF Remainder # <<>> THEN Remainder
                          ELSE Head(body_chunk_queue).data
        /\ ( /\ LinkUp(World)
             /\ tls_ctx.state = "STREAMING_BODY"
             /\ Remainder # <<>>
             /\ body_chunk_queue # <<>> /\ Head(body_chunk_queue).len > 0 ) =>
               /\ TlsCase(World, NextWant).h.req.wire = hist.req.wire \o Remainder
               /\ RemainderOf(TlsCase(World, NextWant)) = Head(body_chunk_queue).data
        /\ TlsCase(World, AllFatal).tls.state = "ERROR"

\* The write of the first chunk of a body of MaxBody bytes would block: the
\* chunk is kept whole and nothing is counted as sent
C29_Witness ==
    /\ tls_ctx.state = "STREAMING_BODY"
    /\ hist.op.name = "none"
    /\ tls_ctx.body_content_length = MaxBody
    /\ tls_ctx.body_bytes_sent = 0
    /\ hist.req.wire = <<>>
    /\ Remainder = <<"a", "b">>

----------------------------------------------------------------------------
(* Specification SpecAgain: a client that starts its next request either   *)
(* with reset-request or, the length being still set, with a trigger read  *)
(* alone once it has seen the response complete.                           *)

InitAgain == InitWith({ScriptHead})

AgainOracle == Oracles({"dns_cached"}, {TRUE}, {0}, {MaxIo, 1}, {MaxIo}, {FALSE})

CanTriggerAgain == port_state.request_pending /\ port_state.response_complete

NextAgain ==
    \/ Poll(AgainOracle)
    \/ TcpConnected
    \/ TcpRecv(MaxIo, FALSE)
    \/ CanReset(FALSE) /\ CmdResetRequest
    \/ CanSetLenLo /\ \E d \in 1..MaxBody : CmdSetLenLo(d)
    \/ CanSetLenHi /\ CmdSetLenHi(0)
    \/ CanTrigger /\ CmdTrigger
    \/ CanTriggerAgain /\ CmdTrigger
    \/ CanAddByte /\ CmdAddByte(NextBodyByte)
    \/ CanAddNul /\ CmdAddNul
    \/ CanRead /\ CmdGetStatus

SpecAgain == InitAgain /\ [][NextAgain]_vars

\* C23: STREAMING_BODY never dequeues a body-chunk queue entry that was
\* enqueued before the trigger of the current request for an earlier request
\* whose body ended by byte count.
C23_NoOldBodyEntryDequeued == ~hist.req.took_old

----------------------------------------------------------------------------
(* Specification SpecLen: the content-length ports and the trigger, with   *)
(* the network context taking the descriptors.                             *)

InitLen == InitWith({ScriptHead})

LenOracle == Oracles({"dns_cached", "setup_fail"}, {TRUE}, {0}, {MaxIo}, {MaxIo}, {FALSE})

NextLen ==
    \/ Poll(LenOracle)
    \/ TcpConnected
    \/ hist.cmd.epoch < MaxRequests /\ CmdResetRequest
    \/ \E d \in {0, 1, 64} : CmdSetLenLo(d)
    \/ \E d \in {0, 128, 156} : CmdSetLenHi(d)
    \/ CmdTrigger
    \/ CmdGetLenLo
    \/ CmdGetLenHi

SpecLen == InitLen /\ [][NextLen]_vars

\* The value the two length bytes last written assemble
AssembledNow == port_state'.content_length_lo + 256 * hist'.op.arg

\* C9: a set-length-hi write that assembles more than 32768 leaves
\* content_length_ready false and the stored length 0; one that assembles
\* 1..32768 stores the value and sets content_length_ready; a trigger read
\* while content_length_ready is false returns 0 and enqueues no descriptor.
C9_LengthCheck ==
    [][ /\ (hist'.op.name = "SetLenHi" /\ AssembledNow > 32768) =>
               /\ ~port_state'.content_length_ready
               /\ port_state'.content_length = 0
        /\ (hist'.op.name = "SetLenHi" /\ AssembledNow \in 1..32768) =>
               /\ port_state'.content_length_ready
               /\ port_state'.content_length = AssembledNow
        /\ (hist'.op.name = "Trigger" /\ ~port_state.content_length_ready) =>
               /\ hist'.op.ret = 0
               /\ outbound_queue' = outbound_queue
               /\ port_state' = port_state ]_vars

\* 40000 has just been rejected after a request of this epoch was triggered
\* (so content_length_ready was true before)
C9_Witness ==
    /\ hist.op.name = "SetLenHi" /\ hist.op.arg = 156
    /\ port_state.content_length_lo = 64
    /\ port_state.request_pending
    /\ ~port_state.content_length_ready
    /\ port_state.content_length = 0

\* C14: a trigger read made with a content length ready and greater than 0
\* and room in the request-start queue returns 1 and appends one descriptor
\* with that length and the abort flag clear, leaving the other two queues
\* alone; any other trigger read returns 0 and changes neither the three
\* queues nor the port state.
C14_TriggerEnqueuesOnce ==
    [][ hist'.op.name = "Trigger" =>
          IF /\ port_state.content_length_ready
             /\ port_state.content_length > 0
             /\ Len(outbound_queue) < OUTBOUND_QUEUE_SIZE
          THEN /\ hist'.op.ret = 1
               /\ Len(outbound_queue') = Len(outbound_queue) + 1
               /\ SubSeq(outbound_queue', 1, Len(outbound_queue)) = outbound_queue
               /\ outbound_queue'[Len(outbound_queue')].content_length
                      = port_state.content_length
               /\ ~outbound_queue'[Len(outbound_queue')].abort
               /\ body_chunk_queue' = body_chunk_queue
               /\ inbound_queue' = inbound_queue
          ELSE /\ hist'.op.ret = 0
               /\ outbound_queue' = outbound_queue
               /\ body_chunk_queue' = body_chunk_queue
               /\ inbound_queue' = inbound_queue
               /\ port_state' = port_state ]_vars

\* A trigger read has just failed only because the request-start queue is full
C14_Witness ==
    /\ hist.op.name = "Trigger" /\ hist.op.ret = 0
    /\ port_state.content_length_ready
    /\ port_state.content_length > 0
    /\ Len(outbound_queue) = OUTBOUND_QUEUE_SIZE

\* The two bytes the get-length ports echo
EchoLo == port_state.content_length % 256
EchoHi == (port_state.content_length \div 256) % 256

\* C20: a set-length-hi write of b that follows a set-length-lo write of a
\* with a + 256*b <= 32768 makes the get-length ports echo a and b, and they
\* keep echoing them until the next set-length-hi or reset-request write; a
\* set-length-lo write records its byte and leaves both echoed values alone;
\* get-length-lo and get-length-hi return the echoed values and change
\* nothing.
C20_LengthEcho ==
    [][ /\ (hist'.op.name = "SetLenHi" /\ AssembledNow <= 32768) =>
               /\ EchoLo' = port_state.content_length_lo
               /\ EchoHi' = hist'.op.arg
        /\ hist'.op.name = "SetLenLo" =>
               /\ port_state'.content_length_lo = hist'.op.arg
               /\ EchoLo' = EchoLo
               /\ EchoHi' = EchoHi
        /\ hist'.op.name \notin {"SetLenLo", "SetLenHi", "ResetRequest"} =>
               /\ port_state'.content_length_lo = port_state.content_length_lo
               /\ EchoLo' = EchoLo
               /\ EchoHi' = EchoHi
        /\ hist'.op.name = "GetLenLo" =>
               /\ hist'.op.ret = EchoLo
               /\ port_state' = port_state
        /\ hist'.op.name = "GetLenHi" =>
               /\ hist'.op.ret = EchoHi
               /\ port_state' = port_state ]_vars

\* Get-length-lo has just echoed the 1 of the accepted pair (1, 0) although
\* 64 was written to set-length-lo afterwards
C20_Witness ==
    /\ hist.op.name = "GetLenLo" /\ hist.op.ret = 1
    /\ port_state.content_length_lo = 64
    /\ port_state.content_length_ready

----------------------------------------------------------------------------
(* Specification SpecStatus: after a request is triggered the command      *)
(* context writes body bytes and reads status and response bytes in any    *)
(* order while the response arrives.                                       *)

MaxWritten == 6      \* body bytes written per request in SpecStatus

\* Two token frames, [DONE], close_notify
ScriptTokens ==
    HDR \o Data(Token(<<"h", "i">>)) \o STR_LFLF \o Data(Token(<<"x">>)) \o STR_LFLF
        \o Data(<<SP>> \o STR_DONE) \o STR_LFLF \o <<CLOSE_NOTIFY>>

InitStatus == InitWith({ScriptTokens})

StatusOracle == Oracles({"dns_cached"}, {TRUE}, {0}, {MaxIo}, {MaxIo}, {FALSE})

NextStatus ==
    \/ Poll(StatusOracle)
    \/ TcpConnected
    \/ TcpRecv(MaxIo, FALSE)
    \/ CanReset(FALSE) /\ CmdResetRequest
    \/ CanSetLenLo /\ CmdSetLenLo(1)
    \/ CanSetLenHi /\ CmdSetLenHi(0)
    \/ CanTrigger /\ CmdTrigger
    \/ port_state.request_pending /\ Len(hist.cmd.written) < MaxWritten
           /\ CmdAddByte(NextBodyByte)
    \/ port_state.request_pending /\ CmdGetStatus
    \/ port_state.request_pending /\ CmdGetByte
    \/ port_state.request_pending /\ CmdIsComplete

SpecStatus == InitStatus /\ [][NextStatus]_vars

\* The staging buffer holds an unread byte (before the step)
UnreadBefore == Len(port_state.response_buffer) > port_state.response_position

\* What a status read leaves alone
StatusReadFrame ==
    /\ inbound_queue' = inbound_queue
    /\ port_state'.response_buffer = port_state.response_buffer
    /\ port_state'.response_position = port_state.response_position
    /\ port_state'.response_complete = port_state.response_complete

\* What get-byte returns when there is an unread byte
GetByteReturnsNext ==
    (hist'.op.name = "GetByte" /\ UnreadBefore) =>
        hist'.op.byte = port_state.response_buffer[port_state.response_position + 1]

\* C10 as claimed: with an unread byte staged, a status read changes neither
\* the inbound queue nor the staging buffer, cursor and completion flag and
\* returns DATA_READY; get-byte returns the byte at the cursor.
C10_AsClaimed ==
    [][ /\ (hist'.op.name = "GetStatus" /\ UnreadBefore) =>
               StatusReadFrame /\ hist'.op.ret = OAI_DATA_READY
        /\ GetByteReturnsNext ]_vars

\* C10: with an unread byte staged, a status read changes neither the
\* inbound queue nor the staging buffer, cursor and completion flag; it
\* returns BUSY when the body-chunk queue is full and DATA_READY otherwise;
\* get-byte returns the byte at the cursor.
C10_StatusReadIdempotent ==
    [][ /\ (hist'.op.name = "GetStatus" /\ UnreadBefore) =>
               /\ StatusReadFrame
               /\ hist'.op.ret = IF Len(body_chunk_queue) >= BODY_CHUNK_QUEUE_SIZE
                                 THEN OAI_BUSY ELSE OAI_DATA_READY
        /\ GetByteReturnsNext ]_vars

\* C16: a status read returns BUSY exactly when the body-chunk queue is full
\* before the read; a read that returns BUSY changes neither the inbound
\* queue nor the port state; any other read returns EOF, WAITING, DATA_READY
\* or FAILED.
C16_BusyIffBodyQueueFull ==
    [][ hist'.op.name = "GetStatus" =>
          /\ hist'.op.ret = OAI_BUSY <=> Len(body_chunk_queue) >= BODY_CHUNK_QUEUE_SIZE
          /\ hist'.op.ret = OAI_BUSY =>
                 /\ inbound_queue' = inbound_queue
                 /\ port_state' = port_state
          /\ hist'.op.ret # OAI_BUSY =>
                 hist'.op.ret \in {OAI_EOF, OAI_WAITING, OAI_DATA_READY, OAI_FAILED} ]_vars

\* A status read has just reported BUSY although a message waits in the
\* inbound queue and nothing is staged
C16_Witness ==
    /\ hist.op.name = "GetStatus" /\ hist.op.ret = OAI_BUSY
    /\ inbound_queue # <<>>
    /\ port_state.response_buffer = <<>>

\* A status read has reported DATA_READY for a staged byte while a further
\* message waits in the inbound queue
C10_Witness ==
    /\ hist.op.name = "GetStatus" /\ hist.op.ret = OAI_DATA_READY
    /\ Len(port_state.response_buffer) > port_state.response_position
    /\ port_state.response_position > 0
    /\ inbound_queue # <<>>

----------------------------------------------------------------------------
(* Specification Spec: a client that follows the port protocol but may     *)
(* write reset-request at any time, against every behaviour of resolver,   *)
(* transport, TLS layer and clock.                                         *)

\* One token frame, then close_notify
ScriptToken == HDR \o Data(Token(<<"h">>)) \o STR_LFLF \o <<CLOSE_NOTIFY>>

Init == InitWith({ScriptToken})

AnyOracle ==
    Oracles({"setup_fail", "dns_cached", "dns_inprogress", "dns_err"}, BOOLEAN,
            {0, SSL_WANT, SSL_FATAL}, {MaxIo, SSL_WANT, SSL_FATAL}, {MaxIo}, BOOLEAN)

Next ==
    \/ Poll(AnyOracle)
    \/ DnsCallback(BOOLEAN)
    \/ TcpConnected
    \/ TcpRecv(MaxIo, FALSE)
    \/ TcpRecvClosed
    \/ TcpErr
    \/ Tick
    \/ CanReset(TRUE) /\ CmdResetRequest
    \/ CanSetLenLo /\ CmdSetLenLo(1)
    \/ CanSetLenHi /\ CmdSetLenHi(0)
    \/ CanTrigger /\ CmdTrigger
    \/ CanAddByte /\ CmdAddByte(NextBodyByte)
    \/ CanAddNul /\ CmdAddNul
    \/ hist.cmd.epoch > 0 /\ CmdGetStatus
    \/ hist.cmd.epoch > 0 /\ CmdGetByte

Spec == Init /\ [][Next]_vars

\* C3: after a reset-request that follows an earlier request, a status read
\* made before the client has taken a message of its new request from the
\* inbound queue does not report DATA_READY.
C3_NoStaleDataReady ==
    (hist.op.name = "GetStatus" /\ hist.cmd.epoch > 1 /\ ~hist.cmd.own) =>
        hist.op.ret # OAI_DATA_READY

\* C4: at most one terminal status is enqueued for a dequeued descriptor that
\* the client did not reset, and exactly one once the machine is IDLE again.
C4_OneTerminal ==
    (hist.req.id > 0 /\ ~hist.req.reset_during) =>
        /\ Len(hist.req.terminals) <= 1
        /\ tls_ctx.state = "IDLE" => Len(hist.req.terminals) = 1

\* C5: from a fatal event until the terminal status is emitted the machine
\* stays in ERROR, and the terminal status is FAILED.
C5_ErrorThenFailed ==
    (hist.req.fatal /\ ~hist.req.reset_during) =>
        IF hist.req.terminals = <<>> THEN tls_ctx.state = "ERROR"
        ELSE hist.req.terminals[1] = OAI_FAILED

\* A poll that starts in this state passes through IDLE before it returns
ReachesIdle ==
    \/ tls_ctx.state \in {"IDLE", "DONE", "ERROR"}
    \/ tls_ctx.elapsed > OPENAI_TIMEOUT_MS

\* C11: a step that starts a request (a new descriptor id is in work) is a
\* poll whose state machine half ended in IDLE; a network step that leaves
\* the machine outside IDLE without starting a request leaves the
\* request-start queue alone; at most one PCB is open, and a live peer
\* connection is always the one tls_ctx.pcb refers to.
C11_StartOnlyWhenIdle ==
    [][ /\ hist'.req.id # hist.req.id => ReachesIdle
        /\ (hist'.op.name = "none" /\ hist'.req.id = hist.req.id) =>
               outbound_queue' = outbound_queue
        /\ hist'.open <= 1
        /\ net'.conn # "none" => tls_ctx'.pcb ]_vars

\* A descriptor waits in the request-start queue while the earlier request
\* is receiving on its connection
C11_Witness ==
    /\ outbound_queue # <<>>
    /\ tls_ctx.state = "RECEIVING"
    /\ net.conn = "est"
    /\ tls_ctx.recv_buf # <<>>
    /\ hist.op.name = "none"
    /\ Head(outbound_queue).gid = hist.req.id + 1

\* C13: when a reset-request write returns the TLS state machine is IDLE,
\* and the inbound queue never holds a message of a request issued before
\* the latest reset-request.
C13_ResetForcesIdle ==
    [][ /\ hist'.op.name = "ResetRequest" => tls_ctx'.state = "IDLE"
        /\ \A i \in DOMAIN hist'.iq_gid : hist'.iq_gid[i] = hist'.cmd.epoch ]_vars

\* The declared chain of the TLS states
ChainNext ==
    [ IDLE |-> "DNS_RESOLVING", DNS_RESOLVING |-> "CONNECTING",
      CONNECTING |-> "TLS_HANDSHAKE", TLS_HANDSHAKE |-> "SENDING_HEADERS",
      SENDING_HEADERS |-> "STREAMING_BODY", STREAMING_BODY |-> "RECEIVING",
      RECEIVING |-> "DONE", DONE |-> "IDLE", ERROR |-> "IDLE" ]

\* No change, or one change the chain allows
ChainStep(from, to) ==
    \/ to = from
    \/ to = ChainNext[from]
    \/ to = "ERROR" /\ from # "IDLE"

\* The changes one call of openai_poll makes: ERROR on the overall timeout,
\* the change made by the case of the switch, and in IDLE the start of a
\* request, which passes through DNS_RESOLVING when the address is cached
PollFollowsChain(W, o) ==
    LET st0 == W.tls.state
        st1 == IF st0 = "IDLE" THEN st0 ELSE check_overall_timeout(W).tls.state
        st2 == IF st0 = "IDLE" THEN st0 ELSE poll_tls_state_machine(W, o).tls.state
        st3 == openai_poll(W, o).tls.state
    IN /\ ChainStep(st0, st1)
       /\ ChainStep(st1, st2)
       /\ \/ ChainStep(st2, st3)
          \/ st2 = "IDLE" /\ st3 = "CONNECTING"

\* C26: in every reachable state, each state change that a call of
\* openai_poll or a callback lwIP may invoke there makes is a change the
\* chain allows: to the next state, to ERROR from a state other than IDLE,
\* or to IDLE from DONE or ERROR.
C26_StateChain ==
    /\ \A o \in AnyOracle : PollFollowsChain(World, o)
    /\ net.dns_cb =>
           \A found \in BOOLEAN :
               ChainStep(tls_ctx.state, dns_callback(World, found).tls.state)
    /\ (tls_ctx.pcb /\ net.conn = "syn") =>
           ChainStep(tls_ctx.state, tcp_connected_callback(World, TRUE).tls.state)
    /\ (tls_ctx.pcb /\ net.conn = "est" /\ ~net.fin) =>
           ChainStep(tls_ctx.state, tcp_recv_closed(World).tls.state)
    /\ (tls_ctx.pcb /\ net.conn \in {"syn", "est"}) =>
           ChainStep(tls_ctx.state, tcp_err_callback(World).tls.state)

\* C27: at most one tcp_connect is issued for a Request Descriptor, and none
\* is issued for a request that has already failed or ended.
C27_OneConnectPerRequest ==
    [][ /\ hist'.req.connects <= 1
        /\ hist'.req.connects > hist.req.connects =>
               /\ ~hist.req.fatal
               /\ hist.req.terminals = <<>> ]_vars

\* C36: from a state where the machine is IDLE and the request it worked on
\* has had its terminal status, every step that does not dequeue a Request
\* Descriptor leaves the machine IDLE and enqueues no further terminal
\* status.
C36_IdleUntilNextRequest ==
    [][ ( /\ tls_ctx.state = "IDLE"
          /\ hist.req.terminals # <<>>
          /\ hist'.req.id = hist.req.id ) =>
            /\ tls_ctx'.state = "IDLE"
            /\ hist'.req.terminals = hist.req.terminals ]_vars

----------------------------------------------------------------------------
(* Specification SpecRead: a response of more token events than the        *)
(* inbound queue takes without a reader arrives in small segments while    *)
(* the client reads status and bytes at its own pace.  Nothing fails.      *)

\* Six token events, [DONE], close_notify
ScriptText ==
    HDR \o Data(Token(<<"1">>)) \o STR_LFLF \o Data(Token(<<"2">>)) \o STR_LFLF
        \o Data(Token(<<"3">>)) \o STR_LFLF \o Data(Token(<<"4">>)) \o STR_LFLF
        \o Data(Token(<<"5">>)) \o STR_LFLF \o Data(Token(<<"6">>)) \o STR_LFLF
        \o Data(<<SP>> \o STR_DONE) \o STR_LFLF \o <<CLOSE_NOTIFY>>

InitRead == InitWith({ScriptText})

ReadOracle == Oracles({"dns_cached"}, {TRUE}, {0}, {MaxIo}, {MaxIo}, {FALSE})

NextRead ==
    \/ Poll(ReadOracle)
    \/ TcpConnected
    \/ \E k \in {SegSmall, MaxIo} : TcpRecv(k, FALSE)
    \/ hist.cmd.epoch = 0 /\ CmdResetRequest
    \/ CanSetLenLo /\ CmdSetLenLo(1)
    \/ CanSetLenHi /\ CmdSetLenHi(0)
    \/ CanTrigger /\ CmdTrigger
    \/ CanAddByte /\ CmdAddByte(NextBodyByte)
    \/ CanAddNul /\ CmdAddNul
    \/ CanRead /\ CmdGetStatus
    \/ CanRead /\ CmdGetByte

SpecRead == InitRead /\ [][NextRead]_vars

\* The text of the payloads, in order
RECURSIVE TokenText(_)
TokenText(payloads) ==
    IF payloads = <<>> THEN <<>>
    ELSE LET f == parse_sse_frame(Head(payloads))
         IN (IF f.has THEN Take(f.token, RESPONSE_CHUNK_SIZE - 1) ELSE <<>>)
                \o TokenText(Tail(payloads))

\* The text of the events of a decrypted stream
EventText(decrypted) == TokenText(OneShotFrames(ResponseBody(decrypted)))

\* The client has read its response to the end
ReadToEnd ==
    /\ hist.req.id = hist.cmd.epoch
    /\ tls_ctx.state = "IDLE"
    /\ hist.req.terminals = <<OAI_EOF>>
    /\ inbound_queue = <<>>
    /\ port_state.response_complete
    /\ ~unread_byte(port_state)

\* C15: the bytes get-byte has returned are, in order and each once, the
\* beginning of the text of the events of the decrypted stream, and all of
\* that text once the response has been read to its EOF.
C15_ReadInOrder ==
    /\ IsPrefix(hist.cmd.read, EventText(hist.req.decrypted))
    /\ ReadToEnd => hist.cmd.read = EventText(hist.req.decrypted)

\* The bytes of the peer's script that lwIP has passed to tcp_recv_callback
Delivered == Take(net.script, Len(net.script) - Len(net.stream))

\* The bytes mbedtls_lwip_recv has handed to the TLS layer
Handed ==
    hist.req.decrypted \o (IF hist.req.closed_by = "tls" THEN <<CLOSE_NOTIFY>> ELSE <<>>)

\* C21: while the connection of the current request is open, the bytes
\* handed to the TLS layer followed by the bytes still unread in recv_buf are
\* exactly the bytes delivered to tcp_recv_callback: none is dropped,
\* repeated or reordered.
C21_EveryByteHanded ==
    (tls_ctx.pcb /\ net.conn = "est" /\ ~net.fin) =>
        Handed \o Drop(tls_ctx.recv_buf, tls_ctx.recv_offset) = Delivered

----------------------------------------------------------------------------
(* Specification SpecYield: responses whose events are short or as long as *)
(* the decrypted buffer arrive while the client drains the inbound queue   *)
(* and time passes.                                                        *)

\* One token event of HTTP_BUF_SIZE bytes and more, [DONE], close_notify
ScriptLong ==
    HDR \o Data(Token(<<"a", "b", "c", "d", "e", "f", "g", "h",
                        "i", "j", "k", "l", "m", "n", "o", "p">>)) \o STR_LFLF
        \o Data(<<SP>> \o STR_DONE) \o STR_LFLF \o <<CLOSE_NOTIFY>>

InitYield == InitWith({ScriptTokens, ScriptLong})

NextYield ==
    \/ Poll(ReadOracle)
    \/ TcpConnected
    \/ \E k \in {SegSmall, MaxIo} : TcpRecv(k, FALSE)
    \/ Tick
    \/ hist.cmd.epoch = 0 /\ CmdResetRequest
    \/ CanSetLenLo /\ CmdSetLenLo(1)
    \/ CanSetLenHi /\ CmdSetLenHi(0)
    \/ CanTrigger /\ CmdTrigger
    \/ CanAddByte /\ CmdAddByte(NextBodyByte)
    \/ CanAddNul /\ CmdAddNul
    \/ CanRead /\ CmdGetStatus
    \/ CanRead /\ CmdGetByte

SpecYield == InitYield /\ [][NextYield]_vars

\* The RECEIVING loop returns at once: no free space in the decrypted buffer
Yielding ==
    /\ tls_ctx.state = "RECEIVING"
    /\ Len(tls_ctx.http_buf) >= HTTP_BUF_SIZE - 1

\* process_received_data can take something out of the decrypted buffer
\* once the inbound queue has room
CanExtract ==
    IF tls_ctx.headers_complete THEN sse_pop_frame(tls_ctx.http_buf).found
    ELSE strstr(tls_ctx.http_buf, STR_CRLFCRLF) >= 0

\* C17: whenever the machine yields in RECEIVING for lack of space in the
\* decrypted buffer, the buffer holds something a later poll can extract
\* when the client has drained the inbound queue, so that space is freed
\* and more is decrypted before the overall timeout; no fatal event comes
\* from the yield.
C17_YieldResolves ==
    Yielding => (CanExtract /\ ~hist.req.fatal)

----------------------------------------------------------------------------
(* Specification SpecTime: two requests one after the other against a peer *)
(* and a TLS layer that never fail, while time passes at any rate, also    *)
(* between the requests.                                                   *)

InitTime == InitWith({ScriptToken})

TimeOracle ==
    Oracles({"dns_cached", "dns_inprogress"}, {TRUE}, {0}, {MaxIo}, {MaxIo}, {FALSE})

NextTime ==
    \/ Poll(TimeOracle)
    \/ DnsCallback({TRUE})
    \/ TcpConnected
    \/ TcpRecv(MaxIo, FALSE)
    \/ Tick
    \/ CanReset(FALSE) /\ CmdResetRequest
    \/ CanSetLenLo /\ CmdSetLenLo(1)
    \/ CanSetLenHi /\ CmdSetLenHi(0)
    \/ CanTrigger /\ CmdTrigger
    \/ CanAddByte /\ CmdAddByte(NextBodyByte)
    \/ CanAddNul /\ CmdAddNul
    \/ CanRead /\ CmdGetStatus
    \/ CanRead /\ CmdGetByte

SpecTime == InitTime /\ [][NextTime]_vars

\* The state machine has ended the request with FAILED and is IDLE
EndedFailed(W) ==
    /\ W.tls.state = "IDLE"
    /\ W.h.req.terminals # <<>>
    /\ W.h.req.terminals[Len(W.h.req.terminals)] = OAI_FAILED

\* This step puts a FAILED status on the inbound queue
EmitsFailed ==
    /\ Len(inbound_queue') = Len(inbound_queue) + 1
    /\ inbound_queue'[Len(inbound_queue')].status = OAI_FAILED

\* C18: in every state but IDLE, the state machine called with the overall
\* timeout exceeded ends with FAILED emitted and the state IDLE; the clock
\* restarts when a request starts; and, with the DNS timeout as the only
\* other failure, FAILED is emitted only outside IDLE and either with the
\* request's elapsed time over the limit or from ERROR.
C18_OverallTimeout ==
    [][ /\ (tls_ctx.state # "IDLE" /\ tls_ctx.elapsed > OPENAI_TIMEOUT_MS) =>
               \A o \in TimeOracle : EndedFailed(poll_tls_state_machine(Net(World), o))
        /\ hist'.req.id # hist.req.id => tls_ctx'.elapsed = 0
        /\ EmitsFailed =>
               /\ tls_ctx.state # "IDLE"
               /\ tls_ctx.elapsed > OPENAI_TIMEOUT_MS \/ tls_ctx.state = "ERROR" ]_vars

\* The second request has run into the overall timeout while receiving,
\* after the first one ended with EOF
C18_Witness ==
    /\ hist.req.id = MaxRequests
    /\ hist.req.terminals = <<OAI_FAILED>>
    /\ hist.req.decrypted # <<>>
    /\ tls_ctx.state = "IDLE"
    /\ hist.op.name = "none"

\* C19: once the client has taken FAILED from the inbound queue (by a status
\* read or by the get-byte auto-advance), a status read that is not BUSY
\* reports FAILED (3), not EOF (0).
C19_StatusReportsFailed ==
    ( /\ hist.op.name = "GetStatus"
      /\ hist.op.ret # OAI_BUSY
      /\ port_state.status = OAI_FAILED ) => hist.op.ret = OAI_FAILED

----------------------------------------------------------------------------
(* Specification SpecPop: sse_pop_frame applied, again and again, to a     *)
(* decrypted buffer of up to MaxBuf bytes drawn from a letter, CR and LF.  *)

MaxBuf == 6          \* longest decrypted buffer

RECURSIVE Buffers(_)
Buffers(n) ==
    IF n = 0 THEN {<<>>}
    ELSE Buffers(n - 1) \cup {Append(b, c) : b \in Buffers(n - 1), c \in {"a", CR, LF}}

InitPop ==
    /\ \E b \in Buffers(MaxBuf) : tls_ctx = [TlsZero EXCEPT !.http_buf = b]
    /\ port_state = PortZero
    /\ outbound_queue = <<>>
    /\ body_chunk_queue = <<>>
    /\ inbound_queue = <<>>
    /\ net = [dns_cb |-> FALSE, conn |-> "none", stream |-> <<>>, fin |-> FALSE,
              script |-> <<>>]
    /\ hist = [ op |-> Op("init", 0, 0), req |-> ReqHist0, iq_gid |-> <<>>,
                cmd |-> [epoch |-> 0, written |-> <<>>, own |-> FALSE, read |-> <<>>],
                open |-> 0, pc |-> "run", bq_old |-> <<>> ]
    /\ ws = WsZero

\* One call of sse_pop_frame; the last operation records the frame returned
PopFrame ==
    LET p == sse_pop_frame(tls_ctx.http_buf)
    IN /\ tls_ctx.http_buf # <<>>
       /\ tls_ctx' = [tls_ctx EXCEPT !.http_buf = p.buf]
       /\ hist' = [hist EXCEPT !.op = [Op("PopFrame", 0, IF p.found THEN 1 ELSE 0)
                                         EXCEPT !.byte = p.frame]]
       /\ UNCHANGED <<port_state, outbound_queue, body_chunk_queue, inbound_queue, net, ws>>

NextPop == PopFrame

SpecPop == InitPop /\ [][NextPop]_vars

\* The blank-line delimiter that occurs earliest in buf
EarliestDelim(buf) ==
    LET nn == strstr(buf, STR_LFLF)
        rn == strstr(buf, STR_CRLFCRLF)
    IN IF rn >= 0 /\ (nn < 0 \/ rn < nn) THEN [at |-> rn, len |-> 4]
       ELSE [at |-> nn, len |-> 2]

\* C25: a frame returned by sse_pop_frame is the part of the buffer before
\* the blank-line delimiter that occurs earliest, LF LF or CR LF CR LF, and
\* the buffer is left with exactly the bytes that follow that delimiter.
C25_CutsAtEarliestDelimiter ==
    [][ (hist'.op.name = "PopFrame" /\ hist'.op.ret = 1) =>
          /\ hist'.op.byte = Take(tls_ctx.http_buf, EarliestDelim(tls_ctx.http_buf).at)
          /\ tls_ctx'.http_buf =
                 Drop(tls_ctx.http_buf, EarliestDelim(tls_ctx.http_buf).at
                                            + EarliestDelim(tls_ctx.http_buf).len) ]_vars

----------------------------------------------------------------------------
(* Specification SpecReset: the client may write reset-request at any      *)
(* time, and the network context runs on its own core, also between the    *)
(* queue drains of the reset-request write.                                *)

InitReset == InitWith({ScriptTokens})

NextReset ==
    \/ Poll(StatusOracle)
    \/ TcpConnected
    \/ TcpRecv(SegSmall, FALSE)
    \/ hist.pc = "run" /\ CanReset(TRUE) /\ CmdResetRequestClear
    \/ hist.pc = "drain" /\ CmdResetRequestDrain
    \/ hist.pc = "run" /\ CanSetLenLo /\ CmdSetLenLo(1)
    \/ hist.pc = "run" /\ CanSetLenHi /\ CmdSetLenHi(0)
    \/ hist.pc = "run" /\ CanTrigger /\ CmdTrigger
    \/ hist.pc = "run" /\ CanAddByte /\ CmdAddByte(NextBodyByte)
    \/ hist.pc = "run" /\ CanAddNul /\ CmdAddNul
    \/ hist.pc = "run" /\ hist.cmd.epoch > 0 /\ CmdGetStatus
    \/ hist.pc = "run" /\ CanRead /\ CmdGetByte
    \/ hist.pc = "run" /\ hist.cmd.epoch > 0 /\ CmdIsComplete

SpecReset == InitReset /\ [][NextReset]_vars

\* C12: when the reset-request write returns, the three queues and the body
\* staging buffer are empty and the content length is 0 and not ready; an
\* is-complete read that follows directly returns 0 and a status read that
\* follows directly returns WAITING.
C12_ResetLeavesClean ==
    [][ /\ hist'.op.name = "ResetRequest" =>
               /\ outbound_queue' = <<>>
               /\ body_chunk_queue' = <<>>
               /\ inbound_queue' = <<>>
               /\ port_state'.chunk_buffer = <<>>
               /\ port_state'.content_length = 0
               /\ ~port_state'.content_length_ready
        /\ (hist.op.name = "ResetRequest" /\ hist'.op.name = "IsComplete") =>
               hist'.op.ret = 0
        /\ (hist.op.name = "ResetRequest" /\ hist'.op.name = "GetStatus") =>
               hist'.op.ret = OAI_WAITING ]_vars

----------------------------------------------------------------------------
(* Specification SpecStream: responses of several shapes arrive in TCP     *)
(* segments and TLS reads of different sizes while the client reads        *)
(* status at its own pace.                                                 *)

ReadSmall == 3       \* bytes returned by a short TLS read

Frame(x) == Data(<<x>>) \o STR_LFLF

\* A delimited frame, then a payload without delimiter; the peer closes
\* the connection without or with a close_notify
ScriptTail == HDR \o Frame("a") \o Data(<<"b">>)
ScriptTailNotify == ScriptTail \o <<CLOSE_NOTIFY>>
\* [DONE] between two frames
ScriptDone ==
    HDR \o Frame("a") \o Data(<<SP>> \o STR_DONE) \o STR_LFLF \o Frame("z") \o <<CLOSE_NOTIFY>>
\* A CR LF CR LF delimiter followed by an LF LF delimiter
ScriptMixed == HDR \o Data(<<"a">>) \o STR_CRLFCRLF \o Frame("b") \o <<CLOSE_NOTIFY>>
\* More frames than the inbound queue accepts without a reader
ScriptMany ==
    HDR \o Frame("1") \o Frame("2") \o Frame("3") \o Frame("4") \o Frame("5")
        \o Frame("6") \o Frame("7") \o <<CLOSE_NOTIFY>>

InitStream == InitWith({ScriptTail, ScriptTailNotify, ScriptDone, ScriptMixed, ScriptMany})

StreamOracle ==
    Oracles({"dns_cached"}, {TRUE}, {0}, {MaxIo}, {ReadSmall, MaxIo}, BOOLEAN)

NextStream ==
    \/ Poll(StreamOracle)
    \/ TcpConnected
    \/ \E k \in {SegSmall, MaxIo} : TcpRecv(k, FALSE)
    \/ TcpRecvClosed
    \/ TcpErr
    \/ CanReset(FALSE) /\ CmdResetRequest
    \/ CanSetLenLo /\ CmdSetLenLo(1)
    \/ CanSetLenHi /\ CmdSetLenHi(0)
    \/ CanTrigger /\ CmdTrigger
    \/ CanAddByte /\ CmdAddByte(NextBodyByte)
    \/ CanAddNul /\ CmdAddNul
    \/ CanRead /\ CmdGetStatus

SpecStream == InitStream /\ [][NextStream]_vars

\* C2: when a peer close seen in RECEIVING found an undelimited payload in
\* the decrypted buffer and the request ended with EOF, that payload is the
\* last DATA_READY chunk enqueued before the EOF.
C2_TrailingPayloadDelivered ==
    (/\ hist.req.closed_by # "none"
     /\ hist.req.tail # <<>>
     /\ ~hist.req.declined
     /\ hist.req.terminals = <<OAI_EOF>>) =>
        /\ hist.req.frames # <<>>
        /\ hist.req.frames[Len(hist.req.frames)] = hist.req.tail[1]

\* C6: a frame declined for lack of inbound-queue capacity stays, unchanged,
\* at the front of the decrypted buffer until it is delivered, as long as no
\* fatal event or transport close ends the request.
C6_DeclinedFrameKept ==
    /\ ~hist.req.mismatch
    /\ (hist.req.pending # <<>> /\ ~hist.req.fatal /\ hist.req.closed_by # "tcp") =>
           /\ tls_ctx.state = "RECEIVING"
           /\ StartsWith(tls_ctx.http_buf, hist.req.pending[1] \o STR_LFLF)

\* C7: once [DONE] has been extracted, no DATA_READY chunk is enqueued for
\* the request, [DONE] is not forwarded, and the terminal status is EOF.
C7_DoneEndsStream ==
    /\ ~hist.req.done_fwd
    /\ hist.req.done_seen =>
           /\ ~hist.req.after_done
           /\ hist.req.terminals \in {<<>>, <<OAI_EOF>>}

\* C8: when the consumer keeps up and the stream ends with [DONE] or a TLS
\* close, the payloads enqueued are those the extractor yields for the whole
\* decrypted response body in one piece.
C8_SplitIndependent ==
    (/\ hist.req.terminals = <<OAI_EOF>>
     /\ ~hist.req.declined
     /\ ~hist.req.fatal
     /\ hist.req.closed_by = "tls" \/ hist.req.done_seen) =>
        hist.req.frames = OneShotFrames(ResponseBody(hist.req.decrypted))

----------------------------------------------------------------------------
(* Specification SpecHead: the response head holds the text "data:" (as a  *)
(* header named x-metadata does); it arrives in small segments and short   *)
(* TLS reads, and a read may fail or meet the peer's close inside the head.*)

HeadMeta == STR_DATA \o <<"H", CR, LF>>

\* Head, one frame, close_notify
ScriptMeta == HeadMeta \o <<CR, LF>> \o Frame("a") \o <<CLOSE_NOTIFY>>
\* The peer closes inside the head
ScriptMetaCut == HeadMeta \o <<CLOSE_NOTIFY>>

InitHead == InitWith({ScriptMeta, ScriptMetaCut})

NextHead ==
    \/ Poll(StreamOracle)
    \/ TcpConnected
    \/ \E k \in {SegSmall, MaxIo} : TcpRecv(k, FALSE)
    \/ CanReset(FALSE) /\ CmdResetRequest
    \/ CanSetLenLo /\ CmdSetLenLo(1)
    \/ CanSetLenHi /\ CmdSetLenHi(0)
    \/ CanTrigger /\ CmdTrigger
    \/ CanAddByte /\ CmdAddByte(NextBodyByte)
    \/ CanAddNul /\ CmdAddNul
    \/ CanRead /\ CmdGetStatus

SpecHead == InitHead /\ [][NextHead]_vars

\* C28: a DATA_READY message has been enqueued for the current request only
\* if headers_complete is set, whatever forced a flush, and no enqueued
\* payload holds a byte of the response head.
C28_NothingBeforeHeaders ==
    /\ hist.req.frames # <<>> => tls_ctx.headers_complete
    /\ \A i \in DOMAIN hist.req.frames :
           \A j \in DOMAIN hist.req.frames[i] : hist.req.frames[i][j] # "H"
    /\ \A i \in DOMAIN inbound_queue :
           (inbound_queue[i].status = OAI_DATA_READY /\ hist.iq_gid[i] = hist.req.id) =>
               tls_ctx.headers_complete

\* The peer's close_notify was read inside the head, which forced a flush
\* with "data:H" buffered
C28_Witness ==
    /\ hist.req.closed_by = "tls"
    /\ ~tls_ctx.headers_complete
    /\ hist.req.decrypted = HeadMeta
    /\ hist.req.frames = <<>>

----------------------------------------------------------------------------
(* Specification SpecFull: one request whose body of MaxFull bytes the     *)
(* client writes without reading the status first, so that bytes are       *)
(* written while the body-chunk queue is full; the transport accepts every *)
(* write.                                                                  *)

MaxFull == 7         \* body bytes of the request in SpecFull

InitFull == InitWith({ScriptHead})

FullOracle == Oracles({"dns_cached"}, {TRUE}, {0}, {MaxIo}, {MaxIo}, {FALSE})

NextFull ==
    \/ Poll(FullOracle)
    \/ TcpConnected
    \/ hist.cmd.epoch = 0 /\ CmdResetRequest
    \/ CanSetLenLo /\ CmdSetLenLo(MaxFull)
    \/ CanSetLenHi /\ CmdSetLenHi(0)
    \/ CanTrigger /\ CmdTrigger
    \/ port_state.request_pending /\ Len(hist.cmd.written) < port_state.content_length
           /\ CmdAddByte(NextBodyByte)
    \/ CanAddNul /\ CmdAddNul
    \/ port_state.request_pending /\ CmdGetStatus

SpecFull == InitFull /\ [][NextFull]_vars

\* The body bytes held by the entries of the body-chunk queue, in order
RECURSIVE QueuedBytes(_)
QueuedBytes(q) == IF q = <<>> THEN <<>> ELSE Head(q).data \o QueuedBytes(Tail(q))

\* C30: while the request is being sent, the body bytes written to
\* append-body-byte are, in write order, the bytes handed to the TLS layer,
\* the unsent rest of the chunk last taken, the bytes in the body-chunk
\* queue and the staged bytes: no byte is lost when the queue is full.
C30_NoByteLostWhenQueueFull ==
    ( /\ port_state.request_pending
      /\ tls_ctx.state \in {"IDLE", "DNS_RESOLVING", "CONNECTING", "TLS_HANDSHAKE",
                             "SENDING_HEADERS", "STREAMING_BODY"}
      /\ ~hist.req.by_count ) =>
        hist.req.wire \o Remainder \o QueuedBytes(body_chunk_queue)
            \o port_state.chunk_buffer = hist.cmd.written

----------------------------------------------------------------------------
(* Specification SpecParse: a response whose token events are mixed with   *)
(* events that carry neither a token nor a finish_reason arrives in small  *)
(* or large segments while the client reads status, bytes and is-complete  *)
(* at its own pace.                                                        *)

\* An event with "finish_reason":null and no content
FinishNull == Data(STR_FINISH \o <<"n", "u", "l", "l">>) \o STR_LFLF

ScriptRole ==
    HDR \o Frame("r") \o Data(Token(<<"1">>)) \o STR_LFLF \o Frame("r")
        \o Data(Token(<<"2">>)) \o STR_LFLF \o FinishNull
        \o Data(<<SP>> \o STR_DONE) \o STR_LFLF \o <<CLOSE_NOTIFY>>

InitParse == InitWith({ScriptRole})

ParseOracle == Oracles({"dns_cached"}, {TRUE}, {0}, {MaxIo}, {MaxIo}, {FALSE})

NextParse ==
    \/ Poll(ParseOracle)
    \/ TcpConnected
    \/ \E k \in {SegSmall, MaxIo} : TcpRecv(k, FALSE)
    \/ hist.cmd.epoch = 0 /\ CmdResetRequest
    \/ CanSetLenLo /\ CmdSetLenLo(1)
    \/ CanSetLenHi /\ CmdSetLenHi(0)
    \/ CanTrigger /\ CmdTrigger
    \/ CanAddByte /\ CmdAddByte(NextBodyByte)
    \/ CanAddNul /\ CmdAddNul
    \/ CanRead /\ CmdGetStatus
    \/ CanRead /\ CmdGetByte
    \/ CanRead /\ CmdIsComplete

SpecParse == InitParse /\ [][NextParse]_vars

\* The head of the inbound queue is a DATA_READY chunk whose payload has
\* neither a non-null finish_reason nor a content string
NeitherHead ==
    /\ inbound_queue # <<>>
    /\ Head(inbound_queue).status = OAI_DATA_READY
    /\ Head(inbound_queue).len > 0
    /\ ~parse_sse_frame(Head(inbound_queue).data).is_done
    /\ ~parse_sse_frame(Head(inbound_queue).data).has

\* C31: when a status read or a get-byte read dequeues such a chunk while
\* is-complete is 0, the port status becomes WAITING (never FAILED), a
\* status read returns WAITING, is-complete stays 0, only that chunk leaves
\* the inbound queue and the staging buffer is left empty, so that the next
\* status read takes the next chunk; and a response read to its end has
\* delivered the text of all its token events.
C31_EmptyEventKeepsWaiting ==
    /\ [][ ( /\ hist'.op.name \in {"GetStatus", "GetByte"}
             /\ NeitherHead
             /\ inbound_queue' = Tail(inbound_queue)
             /\ ~port_state.response_complete ) =>
               /\ port_state'.status = OAI_WAITING
               /\ hist'.op.name = "GetStatus" => hist'.op.ret = OAI_WAITING
               /\ ~port_state'.response_complete
               /\ port_state'.response_buffer = <<>>
               /\ port_state'.response_position = 0 ]_vars
    /\ [](ReadToEnd => hist.cmd.read = <<"1", "2">>)

\* The get-byte read that returned the last byte of the first token has
\* dequeued the event without token that follows it
C31_Witness ==
    /\ hist.op.name = "GetByte"
    /\ hist.op.byte = "1"
    /\ hist.op.gid = hist.cmd.epoch
    /\ hist.cmd.read = <<"1">>
    /\ port_state.status = OAI_WAITING
    /\ port_state.response_buffer = <<>>
    /\ ~port_state.response_complete

----------------------------------------------------------------------------
(* Specification SpecResp: the client writes a body of MaxResp bytes and   *)
(* reads status and bytes while the response arrives, and may write        *)
(* reset-response at any time after its first reset-request.               *)

MaxResp == 3         \* body bytes of a request in SpecResp

InitResp == InitWith({ScriptTokens})

NextResp ==
    \/ Poll(StatusOracle)
    \/ TcpConnected
    \/ TcpRecv(MaxIo, FALSE)
    \/ CanReset(FALSE) /\ CmdResetRequest
    \/ CanSetLenLo /\ CmdSetLenLo(MaxResp)
    \/ CanSetLenHi /\ CmdSetLenHi(0)
    \/ CanTrigger /\ CmdTrigger
    \/ CanAddByte /\ CmdAddByte(NextBodyByte)
    \/ CanAddNul /\ CmdAddNul
    \/ port_state.request_pending /\ CmdGetStatus
    \/ port_state.request_pending /\ CmdGetByte
    \/ hist.cmd.epoch > 0 /\ CmdResetResponse

SpecResp == InitResp /\ [][NextResp]_vars

\* C32: a reset-response write leaves the response staging buffer empty,
\* the read cursor 0, the completion flag clear, the status WAITING and the
\* inbound queue empty, and leaves the body staging buffer, the
\* content-length register and its ready flag, the request-start queue and
\* the body-chunk queue as they were.
C32_ResetResponseFrame ==
    [][ hist'.op.name = "ResetResponse" =>
          /\ port_state'.response_buffer = <<>>
          /\ port_state'.response_position = 0
          /\ ~port_state'.response_complete
          /\ port_state'.status = OAI_WAITING
          /\ inbound_queue' = <<>>
          /\ port_state'.chunk_buffer = port_state.chunk_buffer
          /\ port_state'.content_length = port_state.content_length
          /\ port_state'.content_length_lo = port_state.content_length_lo
          /\ port_state'.content_length_ready = port_state.content_length_ready
          /\ outbound_queue' = outbound_queue
          /\ body_chunk_queue' = body_chunk_queue ]_vars

\* A reset-response was written while a body byte was staged, a body chunk
\* and a Request Descriptor were queued and the length was latched
C32_Witness ==
    /\ hist.op.name = "ResetResponse"
    /\ port_state.chunk_buffer # <<>>
    /\ body_chunk_queue # <<>>
    /\ outbound_queue # <<>>
    /\ port_state.content_length = MaxResp
    /\ port_state.content_length_ready

----------------------------------------------------------------------------
(* Specification SpecFinish: the peer sends a token event, an event with a *)
(* non-null finish_reason and a further token event; the client reads      *)
(* status, bytes and is-complete at its own pace and may write             *)
(* reset-response, or reset-request once the response is complete.         *)

FinishStop == Data(STR_FINISH \o <<QUOTE, "s", QUOTE>>) \o STR_LFLF

ScriptFinish ==
    HDR \o Data(Token(<<"1">>)) \o STR_LFLF \o FinishStop
        \o Data(Token(<<"2">>)) \o STR_LFLF \o <<CLOSE_NOTIFY>>

InitFinish == InitWith({ScriptFinish})

NextFinish ==
    \/ Poll(ParseOracle)
    \/ TcpConnected
    \/ \E k \in {SegSmall, MaxIo} : TcpRecv(k, FALSE)
    \/ CanReset(FALSE) /\ CmdResetRequest
    \/ CanSetLenLo /\ CmdSetLenLo(1)
    \/ CanSetLenHi /\ CmdSetLenHi(0)
    \/ CanTrigger /\ CmdTrigger
    \/ CanAddByte /\ CmdAddByte(NextBodyByte)
    \/ CanAddNul /\ CmdAddNul
    \/ CanRead /\ CmdGetStatus
    \/ CanRead /\ CmdGetByte
    \/ CanRead /\ CmdIsComplete
    \/ CanRead /\ CmdResetResponse

SpecFinish == InitFinish /\ [][NextFinish]_vars

\* C33: from a state where is-complete reads 1, every step other than a
\* reset-request or reset-response write leaves is-complete at 1, and a
\* status read made in such a state does not return DATA_READY.
C33_CompleteIsSticky ==
    [][ ( /\ port_state.response_complete
          /\ hist'.op.name \notin {"ResetRequest", "ResetRequestClear", "ResetResponse"} ) =>
            /\ port_state'.response_complete
            /\ hist'.op.name = "GetStatus" => hist'.op.ret # OAI_DATA_READY ]_vars

----------------------------------------------------------------------------
(* Specification SpecLive: requests against every behaviour of resolver,   *)
(* transport, TLS layer and clock, where openai_poll keeps being called    *)
(* and time keeps passing.  Nothing else is assumed: the peer need not     *)
(* answer and the client need not read.                                    *)

\* The resolver answers at once, later or with an error; handshake and
\* writes complete, would block or (the handshake) fail
LiveOracle ==
    Oracles({"dns_cached", "dns_inprogress", "dns_err"}, {TRUE},
            {0, SSL_WANT, SSL_FATAL}, {MaxIo, SSL_WANT}, {MaxIo}, {FALSE})

NextLive ==
    \/ Poll(LiveOracle)
    \/ DnsCallback(BOOLEAN)
    \/ TcpConnected
    \/ TcpRecv(MaxIo, FALSE)
    \/ TcpRecvClosed
    \/ TcpErr
    \/ Tick
    \/ CanReset(FALSE) /\ CmdResetRequest
    \/ CanSetLenLo /\ CmdSetLenLo(1)
    \/ CanSetLenHi /\ CmdSetLenHi(0)
    \/ CanTrigger /\ CmdTrigger
    \/ CanAddByte /\ CmdAddByte(NextBodyByte)
    \/ CanAddNul /\ CmdAddNul
    \/ CanRead /\ CmdGetStatus

\* ENABLED <<Poll(LiveOracle)>>_vars, computed from the handler
PollCanStep ==
    /\ tls_ctx.state # "IDLE" \/ outbound_queue # <<>>
    /\ \E o \in LiveOracle : openai_poll(Net(World), o) # World

\* WF_vars(Poll(LiveOracle)) written out: the main loop of the network core
\* calls openai_poll again and again
FairPoll == []<>(~PollCanStep) \/ []<><<Poll(LiveOracle)>>_vars

SpecLive == Init /\ [][NextLive]_vars /\ FairPoll /\ WF_vars(Tick)

\* The machine is IDLE with no PCB, no connection and no TLS context
IdleReleased ==
    /\ tls_ctx.state = "IDLE"
    /\ ~tls_ctx.pcb
    /\ ~tls_ctx.mbedtls_initialized
    /\ net.conn = "none"

\* The state machine half of a poll that starts outside IDLE and ends in
\* IDLE ran the DONE or the ERROR case (ERROR also when the overall timeout
\* was just found exceeded) and leaves transport and TLS resources released
PollEndsReleased(W, o) ==
    (W.tls.state # "IDLE" /\ poll_tls_state_machine(W, o).tls.state = "IDLE") =>
        /\ W.tls.state \in {"DONE", "ERROR"} \/ W.tls.elapsed > OPENAI_TIMEOUT_MS
        /\ ~poll_tls_state_machine(W, o).tls.pcb
        /\ ~poll_tls_state_machine(W, o).tls.mbedtls_initialized
        /\ poll_tls_state_machine(W, o).net.conn = "none"

\* C34: whenever the machine is outside IDLE it is IDLE again later; every
\* step that takes it to IDLE starts in DONE or ERROR or with the overall
\* timeout exceeded; and the state machine half of every poll that ends in
\* IDLE leaves the transport closed and the TLS resources released.
C34_EveryRequestEnds ==
    /\ (tls_ctx.state # "IDLE") ~> (tls_ctx.state = "IDLE")
    /\ [][ (tls_ctx.state # "IDLE" /\ tls_ctx'.state = "IDLE") =>
              tls_ctx.state \in {"DONE", "ERROR"} \/ tls_ctx.elapsed > OPENAI_TIMEOUT_MS ]_vars
    /\ [](\A o \in LiveOracle : PollEndsReleased(Net(World), o))

\* A request whose peer never answered after the connection was set up
\* has been ended by the overall timeout and the machine is IDLE again
C34_Witness ==
    /\ IdleReleased
    /\ hist.op.name = "none"
    /\ hist.req.connects = 1
    /\ hist.req.decrypted = <<>>
    /\ tls_ctx.elapsed > OPENAI_TIMEOUT_MS
    /\ hist.req.terminals = <<OAI_FAILED>>
    /\ inbound_queue # <<>>

----------------------------------------------------------------------------
(* Specification SpecWs: one WebSocket client at a time connects, answers  *)
(* pings or not, and closes, while ping deadlines pass and sendPing        *)
(* succeeds or fails.                                                      *)

WsConnIds == {1, 2}

\* A keep-alive step: w is the new program state, late the new history
WsCommit(w, name, id, late) ==
    /\ ws' = [w EXCEPT !.op = [name |-> name, id |-> id], !.late = late]
    /\ UNCHANGED <<tls_ctx, port_state, outbound_queue, body_chunk_queue,
                   inbound_queue, net, hist>>

WsConnect ==
    /\ ws.active_clients = 0
    /\ \E id \in WsConnIds : WsCommit(handle_connect(ws, id), "connect", id, 0)

WsClose ==
    /\ ws.active_clients > 0
    /\ WsCommit(handle_close(ws, ws.last_conn_id), "close", ws.last_conn_id, 0)

WsPong ==
    /\ ws.active_clients > 0
    /\ \E id \in WsConnIds :
         WsCommit(handle_pong(ws, id), "pong", id,
                  IF id = ws.last_conn_id THEN 0 ELSE ws.late)

\* The time reaches the ping deadline
WsDeadline ==
    /\ ws.active_clients > 0 /\ ~ws.due
    /\ WsCommit([ws EXCEPT !.due = TRUE], "deadline", 0, ws.late)

WsPollOutgoing ==
    \E ping_ok \in BOOLEAN :
        WsCommit(ws_poll_outgoing(ws, ping_ok), "poll", 0,
                 IF ws_poll_outgoing(ws, ping_ok).last_conn_id = 0 THEN 0
                 ELSE IF ws.active_clients > 0 /\ ws.due /\ ws.pending_pings > 0
                      THEN ws.late + 1
                 ELSE ws.late)

NextWs == WsConnect \/ WsClose \/ WsPong \/ WsDeadline \/ WsPollOutgoing

InitWs == InitWith({<<>>})

SpecWs == InitWs /\ [][NextWs]_vars

\* C35: while a client is connected fewer than WS_MAX_MISSED_PONGS ping
\* deadlines have passed for it with a ping unanswered (at the
\* WS_MAX_MISSED_PONGS-th the connection is closed); a pong from the current
\* connection sets pending_pings and missed_pongs to 0; a pong from another
\* connection id changes nothing.
C35_KeepAlive ==
    [][ /\ ws'.last_conn_id # 0 => ws'.late < WS_MAX_MISSED_PONGS
        /\ (ws'.op.name = "pong" /\ ws'.op.id = ws.last_conn_id) =>
               ws'.pending_pings = 0 /\ ws'.missed_pongs = 0
        /\ (ws'.op.name = "pong" /\ ws'.op.id # ws.last_conn_id) =>
               /\ ws'.active_clients = ws.active_clients
               /\ ws'.last_conn_id = ws.last_conn_id
               /\ ws'.pending_pings = ws.pending_pings
               /\ ws'.missed_pongs = ws.missed_pongs
               /\ ws'.due = ws.due ]_vars

----------------------------------------------------------------------------
(* Specification SpecFlood: a consumer that never reads.  The client sets   *)
(* the length once and reads the trigger port again and again, the length   *)
(* being still set; it writes its body but reads neither the status port    *)
(* nor the data port, so nothing leaves the inbound queue.                  *)

InitFlood == InitWith({ScriptToken})

FloodOracle == Oracles({"dns_cached", "setup_fail"}, {TRUE}, {0}, {MaxIo}, {MaxIo}, {FALSE})

CanTriggerFlood ==
    /\ trigger_armed(port_state)
    /\ ~queue_is_full(outbound_queue, OUTBOUND_QUEUE_SIZE)
    /\ hist.req.dropped = 0

NextFlood ==
    \/ Poll(FloodOracle)
    \/ TcpConnected
    \/ TcpRecv(MaxIo, FALSE)
    \/ Tick
    \/ hist.cmd.epoch = 0 /\ CmdResetRequest
    \/ CanSetLenLo /\ CmdSetLenLo(1)
    \/ CanSetLenHi /\ CmdSetLenHi(0)
    \/ CanTriggerFlood /\ CmdTrigger
    \/ CanAddByte /\ CmdAddByte(NextBodyByte)
    \/ CanAddNul /\ CmdAddNul

SpecFlood == InitFlood /\ [][NextFlood]_vars

\* A poll step put a data message on the inbound queue
DataEnqueued ==
    /\ Len(inbound_queue') = Len(inbound_queue) + 1
    /\ inbound_queue'[Len(inbound_queue')].len > 0

\* C37: a data message is enqueued only while more than 3 of the
\* INBOUND_QUEUE_SIZE slots are free, and send_status never fails to enqueue
\* a terminal status, whatever the number of requests and however slowly the
\* consumer reads.
C37_TerminalNeverDropped ==
    /\ [][DataEnqueued => INBOUND_QUEUE_SIZE - Len(inbound_queue) > 3]_vars
    /\ [](hist.req.dropped = 0)

----------------------------------------------------------------------------
(* Specification SpecBusy: one request of a client that writes its body    *)
(* until a terminal status has been enqueued and from then on only reads    *)
(* the status port and the data port.  The network loop keeps polling, time *)
(* passes and the client keeps reading.                                     *)

InitBusy == InitWith({ScriptToken})

RequestEnded == hist.req.terminals # <<>>

ReadStatus == port_state.request_pending /\ CmdGetStatus
ReadByte == port_state.request_pending /\ CmdGetByte

NextBusy ==
    \/ Poll(LiveOracle)
    \/ DnsCallback(BOOLEAN)
    \/ TcpConnected
    \/ TcpRecv(MaxIo, FALSE)
    \/ TcpRecvClosed
    \/ TcpErr
    \/ Tick
    \/ hist.cmd.epoch = 0 /\ CmdResetRequest
    \/ CanSetLenLo /\ \E d \in 1..MaxBody : CmdSetLenLo(d)
    \/ CanSetLenHi /\ CmdSetLenHi(0)
    \/ CanTrigger /\ CmdTrigger
    \/ ~RequestEnded /\ CanAddByte /\ CmdAddByte(NextBodyByte)
    \/ ~RequestEnded /\ CanAddNul /\ CmdAddNul
    \/ ReadStatus
    \/ ReadByte

\* The client keeps reading: a read that would change the state is taken
\* in the end (weak fairness of the two reads, written out)
StatusCanStep == port_state.request_pending /\ in_get_status(World) # World
ByteCanStep == port_state.request_pending /\ in_get_byte(World) # World
FairStatus == []<>(~StatusCanStep) \/ []<><<ReadStatus>>_vars
FairByte == []<>(~ByteCanStep) \/ []<><<ReadByte>>_vars

SpecBusy ==
    /\ InitBusy /\ [][NextBusy]_vars
    /\ FairPoll /\ WF_vars(Tick) /\ FairStatus /\ FairByte

\* C38: once a terminal status has been enqueued for the request, the client
\* that keeps reading the status port reads a terminal status and finds the
\* response complete; the status port does not answer BUSY for ever.
C38_StatusNotBusyForever ==
    RequestEnded ~> ( /\ port_state.response_complete
                      /\ port_state.status \in {OAI_EOF, OAI_FAILED} )

----------------------------------------------------------------------------
(* Specification SpecPrepend: a response with more frames than the inbound *)
(* queue accepts and more bytes than the decrypted buffer holds, among them *)
(* a frame ended by CR LF CR LF, read by a client at its own pace or not at *)
(* all.                                                                     *)

ScriptFrames ==
    HDR \o Frame("1") \o Frame("2") \o Frame("3") \o Frame("4") \o Frame("5")
        \o Frame("6") \o Frame("7") \o Data(<<"8">>) \o STR_CRLFCRLF \o Frame("9")
        \o <<CLOSE_NOTIFY>>

InitPrepend == InitWith({ScriptFrames})

PrependOracle ==
    Oracles({"dns_cached"}, {TRUE}, {0}, {MaxIo}, {ReadSmall, MaxIo}, {FALSE})

NextPrepend ==
    \/ Poll(PrependOracle)
    \/ TcpConnected
    \/ \E k \in {SegSmall, MaxIo} : TcpRecv(k, FALSE)
    \/ hist.cmd.epoch = 0 /\ CmdResetRequest
    \/ CanSetLenLo /\ CmdSetLenLo(1)
    \/ CanSetLenHi /\ CmdSetLenHi(0)
    \/ CanTrigger /\ CmdTrigger
    \/ CanAddByte /\ CmdAddByte(NextBodyByte)
    \/ CanAddNul /\ CmdAddNul
    \/ CanRead /\ CmdGetStatus

SpecPrepend == InitPrepend /\ [][NextPrepend]_vars

\* C39: a frame declined by queue_sse_frame always fits back in front of the
\* decrypted buffer with its LF LF delimiter; the branch that loses the
\* frame is never taken.
C39_ReprependFits == ~hist.req.lost

\* A declined frame was put back and the buffer is full to its last byte
C39_Witness ==
    /\ hist.req.pending # <<>>
    /\ Len(tls_ctx.http_buf) = HTTP_BUF_SIZE - 1
    /\ StartsWith(tls_ctx.http_buf, hist.req.pending[1] \o STR_LFLF)

----------------------------------------------------------------------------
(* Specification SpecBounds: a response longer than the receive buffer,    *)
(* TLS writes that are short or would block, short TLS reads, and a client  *)
(* that writes a body of several chunks and reads status and data at its    *)
(* own pace.                                                                *)

InitBounds == InitWith({ScriptText})

BoundsOracle ==
    Oracles({"dns_cached"}, {TRUE}, {0}, {MaxIo, 1, SSL_WANT}, {ReadSmall, MaxIo}, {FALSE})

NextBounds ==
    \/ Poll(BoundsOracle)
    \/ TcpConnected
    \/ \E k \in {SegSmall, MaxIo} : TcpRecv(k, FALSE)
    \/ hist.cmd.epoch = 0 /\ CmdResetRequest
    \/ CanSetLenLo /\ CmdSetLenLo(MaxBody)
    \/ CanSetLenHi /\ CmdSetLenHi(0)
    \/ CanTrigger /\ CmdTrigger
    \/ CanAddByte /\ CmdAddByte(NextBodyByte)
    \/ CanAddNul /\ CmdAddNul
    \/ CanRead /\ CmdGetStatus
    \/ CanRead /\ CmdGetByte

SpecBounds == InitBounds /\ [][NextBounds]_vars

\* C40: in every reachable state the decrypted buffer leaves room for its
\* NUL, the receive offset is within the received bytes and these within the
\* receive buffer, the partial chunk and the chunk buffer leave room for
\* their NUL, and the read position is within the staged response.
C40_BufferBounds ==
    /\ Len(tls_ctx.http_buf) <= HTTP_BUF_SIZE - 1
    /\ tls_ctx.recv_offset <= Len(tls_ctx.recv_buf)
    /\ Len(tls_ctx.recv_buf) <= TLS_RECV_BUF_SIZE
    /\ tls_ctx.partial_chunk_offset <= Len(tls_ctx.partial_chunk_buf)
    /\ Len(tls_ctx.partial_chunk_buf) <= REQUEST_CHUNK_SIZE - 1
    /\ Len(port_state.chunk_buffer) <= REQUEST_CHUNK_SIZE - 1
    /\ port_state.response_position <= Len(port_state.response_buffer)
    /\ Len(port_state.response_buffer) <= RESPONSE_CHUNK_SIZE - 1

\* The decrypted buffer is full while part of the received bytes is still
\* to be decrypted and the client has a staged chunk to read
C40_Witness ==
    /\ Len(tls_ctx.http_buf) = HTTP_BUF_SIZE - 1
    /\ 0 < tls_ctx.recv_offset /\ tls_ctx.recv_offset < Len(tls_ctx.recv_buf)
    /\ port_state.response_position < Len(port_state.response_buffer)

====
